---- MODULE Spec2Model ----
(***************************************************************************)
(* A model of the balena supervisor's update locks (src/lib/update-lock.ts)*)
(* and of its apply loop (src/device-state.ts).                            *)
(*                                                                         *)
(* Granularity: one action is one piece of code that runs without being    *)
(* interrupted on the single JavaScript thread, that is, the code between  *)
(* two suspension points (an awaited I/O call, a timer, a lock grant).     *)
(* A file-system call acts atomically at the step that issues it.          *)
(***************************************************************************)
EXTENDS Integers, Sequences, FiniteSets, TLC

(***************************************************************************)
(* Part 1: lib/update-lock.ts                                              *)
(***************************************************************************)

\* Number of calls of lock(), made at any time, in any order.
NumCalls == 2
Calls == 1..NumCalls

Apps == {"app1", "app2"}
\* lock(null, ...): no application, no locking.
NoApp == "null"

\* The service directories that may exist under lockPath(appId), in the
\* order readdir lists them.
ServiceOrder == <<"aux", "main">>
ServiceNames(app) == IF app = "app1" THEN {"aux", "main"} ELSE {"main"}

\* A lock file does not exist, or was created by a workload of the
\* application, or by the supervisor (a lock() call).
NoFile == "none"
Workload == "workload"
Supervisor == "supervisor"

\* lockPath(appId, serviceName): the directory of a service's lock files.
lockPath(app, svc) == <<app, svc>>

\* lockFilesOnHost(appId, serviceName): the two lock files of a service,
\* in the order lock() takes them.
lockFilesOnHost(app, svc) ==
    << <<app, svc, "updates.lock">>, <<app, svc, "resin-updates.lock">> >>

Files ==
    {f \in Apps \X {"aux", "main"} \X {"updates.lock", "resin-updates.lock"} :
        f[2] \in ServiceNames(f[1])}

FileApp(f) == f[1]
FileDir(f) == lockPath(f[1], f[2])

VARIABLES
    serviceDirs,      \* the service directories that exist on the host
    lockFiles,        \* lock file -> NoFile, Workload or Supervisor
    createdBy,        \* lock file -> the lock() call that created it, if one did
    locksTaken,       \* update-lock.ts: the module-level locksTaken dictionary
    writeLockHolder,  \* rwlock: key (appId) -> the calls holding it as writers
    writeLockQueue,   \* rwlock: key (appId) -> calls waiting, first come first served
    callPc,           \* where each lock() call stands
    callApp,          \* its appId argument
    callForce,        \* its force option
    callTodo,         \* the lock files it still has to take (mapSeries)
    callPre,          \* whether a lock file of the app existed when it listed the directory
    callOutcome       \* how it settled

lockVars == <<serviceDirs, lockFiles, createdBy, locksTaken, writeLockHolder, writeLockQueue,
              callPc, callApp, callForce, callTodo, callPre, callOutcome>>

\* fs.readdir(lockDir) followed by the two mapSeries: every lock file of
\* every listed service, in order.
RECURSIVE ListedFiles(_, _)
ListedFiles(app, order) ==
    IF order = <<>> THEN <<>>
    ELSE (IF lockPath(app, Head(order)) \in serviceDirs
             THEN lockFilesOnHost(app, Head(order)) ELSE <<>>)
         \o ListedFiles(app, Tail(order))

\* Some lock file of the app exists.
AnyLockFile(app) == \E f \in Files : FileApp(f) = app /\ lockFiles[f] # NoFile

\* A call on this app is taking lock files (between readdir and the thunk).
Acquiring(app) == \E c \in Calls : callApp[c] = app /\ callPc[c] = "locking"

\* The thunk of call c was started.
ThunkRan(c) == callPc[c] = "thunk" \/ callOutcome[c] \in {"returned", "threw"}

InitLockVars ==
    /\ serviceDirs = {lockPath(a, s) : a \in Apps, s \in {"aux", "main"}}
                        \cap {d \in Apps \X {"aux", "main"} : d[2] \in ServiceNames(d[1])}
    /\ lockFiles = [f \in Files |-> NoFile]
    /\ createdBy = [f \in Files |-> {}]
    /\ locksTaken = {}
    /\ writeLockHolder = [a \in Apps |-> {}]
    /\ writeLockQueue = [a \in Apps |-> <<>>]
    /\ callPc = [c \in Calls |-> "idle"]
    /\ callApp = [c \in Calls |-> NoApp]
    /\ callForce = [c \in Calls |-> FALSE]
    /\ callTodo = [c \in Calls |-> <<>>]
    /\ callPre = [c \in Calls |-> FALSE]
    /\ callOutcome = [c \in Calls |-> "none"]

\* lock(appId, {force}, fn) is called. With a null appId takeTheLock returns
\* nothing and fn runs at once; otherwise the call asks for writeLock(appId).
\* Calls are numbered in the order they are made.
lock(c, app, force) ==
    /\ callPc[c] = "idle"
    /\ \A d \in Calls : d < c => callPc[d] # "idle"
    /\ callApp' = [callApp EXCEPT ![c] = app]
    /\ callForce' = [callForce EXCEPT ![c] = force]
    /\ IF app = NoApp
          THEN /\ callPc' = [callPc EXCEPT ![c] = "thunk"]
               /\ UNCHANGED writeLockQueue
          ELSE /\ callPc' = [callPc EXCEPT ![c] = "waiting"]
               /\ writeLockQueue' = [writeLockQueue EXCEPT ![app] = Append(@, c)]
    /\ UNCHANGED <<serviceDirs, lockFiles, createdBy, locksTaken, writeLockHolder,
                   callTodo, callPre, callOutcome>>

\* rwlock grants a writer the key when nobody holds it.
WriteLockFreeAlways(app) == TRUE
WriteLockFree(app) == writeLockHolder[app] = {}

\* writeLock(appId) resolves with the release function.
writeLock(c) ==
    /\ callPc[c] = "waiting"
    /\ writeLockQueue[callApp[c]] # <<>>
    /\ Head(writeLockQueue[callApp[c]]) = c
    /\ WriteLockFree(callApp[c])
    /\ writeLockHolder' = [writeLockHolder EXCEPT ![callApp[c]] = @ \cup {c}]
    /\ writeLockQueue' = [writeLockQueue EXCEPT ![callApp[c]] = Tail(@)]
    /\ callPc' = [callPc EXCEPT ![c] = "readdir"]
    /\ UNCHANGED <<serviceDirs, lockFiles, createdBy, locksTaken,
                   callApp, callForce, callTodo, callPre, callOutcome>>

\* fs.readdir(lockDir).catchReturn(ENOENT, []): a missing directory lists
\* nothing. Any other error rejects the .tap(), so the promise the disposer
\* was to be attached to is rejected: Bluebird.using never runs fn and never
\* calls dispose, and nothing calls release.
readdir(c) ==
    /\ callPc[c] = "readdir"
    /\ callPre' = [callPre EXCEPT ![c] = AnyLockFile(callApp[c])]
    /\ \/ /\ callTodo' = [callTodo EXCEPT ![c] = ListedFiles(callApp[c], ServiceOrder)]
          /\ callPc' = [callPc EXCEPT ![c] = "locking"]
          /\ UNCHANGED callOutcome
       \/ /\ callPc' = [callPc EXCEPT ![c] = "done"]
          /\ callOutcome' = [callOutcome EXCEPT ![c] = "fsError"]
          /\ UNCHANGED callTodo
    /\ UNCHANGED <<serviceDirs, lockFiles, createdBy, locksTaken, writeLockHolder,
                   writeLockQueue, callApp, callForce>>

\* lockFile.lockAsync(tmpLockName) fails with EEXIST when the file exists;
\* with force the file was unlinked just before.
LockFailsIgnoringForce(c, f) == lockFiles[f] # NoFile
LockFails(c, f) == ~callForce[c] /\ lockFiles[f] # NoFile

\* One turn of the inner mapSeries: take the next lock file.
\*  - the service directory is gone: ENOENT, caught, nothing taken;
\*  - the lock fails: the .catch() handler runs dispose(release);
\*  - otherwise the file is created and recorded in locksTaken.
takeLockFile(c) ==
    /\ callPc[c] = "locking"
    /\ callTodo[c] # <<>>
    /\ LET f == Head(callTodo[c]) IN
        IF FileDir(f) \notin serviceDirs
           THEN /\ callTodo' = [callTodo EXCEPT ![c] = Tail(@)]
                /\ UNCHANGED <<lockFiles, createdBy, locksTaken, callPc>>
        ELSE IF LockFails(c, f)
           THEN /\ callPc' = [callPc EXCEPT ![c] = "failed"]
                /\ UNCHANGED <<lockFiles, createdBy, locksTaken, callTodo>>
           ELSE /\ lockFiles' = [lockFiles EXCEPT ![f] = Supervisor]
                /\ createdBy' = [createdBy EXCEPT ![f] = {c}]
                /\ locksTaken' = locksTaken \cup {f}
                /\ callTodo' = [callTodo EXCEPT ![c] = Tail(@)]
                /\ UNCHANGED callPc
    /\ UNCHANGED <<serviceDirs, writeLockHolder, writeLockQueue,
                   callApp, callForce, callPre, callOutcome>>

\* Every lock file is taken: Bluebird.using(disposer, fn) calls fn.
startThunk(c) ==
    /\ callPc[c] = "locking"
    /\ callTodo[c] = <<>>
    /\ callPc' = [callPc EXCEPT ![c] = "thunk"]
    /\ UNCHANGED <<serviceDirs, lockFiles, createdBy, locksTaken, writeLockHolder, writeLockQueue,
                   callApp, callForce, callTodo, callPre, callOutcome>>

\* fn returns or throws. With a disposer, dispose runs next; without one
\* (null appId) the call settles.
thunkSettles(c, how) ==
    /\ callPc[c] = "thunk"
    /\ callOutcome' = [callOutcome EXCEPT ![c] = how]
    /\ callPc' = [callPc EXCEPT ![c] = IF callApp[c] = NoApp THEN "done" ELSE "disposing"]
    /\ UNCHANGED <<serviceDirs, lockFiles, createdBy, locksTaken, writeLockHolder, writeLockQueue,
                   callApp, callForce, callTodo, callPre>>

\* dispose(release), first half: Bluebird.map over _.keys(locksTaken)
\* deletes every key of the shared dictionary and unlinks the file.
disposeUnlink(c) ==
    /\ callPc[c] \in {"disposing", "failed"}
    /\ lockFiles' = [f \in Files |-> IF f \in locksTaken THEN NoFile ELSE lockFiles[f]]
    /\ createdBy' = [f \in Files |-> IF f \in locksTaken THEN {} ELSE createdBy[f]]
    /\ locksTaken' = {}
    /\ callPc' = [callPc EXCEPT ![c] = "releasing"]
    /\ callOutcome' = [callOutcome EXCEPT ![c] =
                          IF callPc[c] = "failed" THEN "UpdatesLockedError" ELSE @]
    /\ UNCHANGED <<serviceDirs, writeLockHolder, writeLockQueue,
                   callApp, callForce, callTodo, callPre>>

\* dispose(release), second half: .finally(release); the call settles.
disposeRelease(c) ==
    /\ callPc[c] = "releasing"
    /\ writeLockHolder' = [writeLockHolder EXCEPT ![callApp[c]] = @ \ {c}]
    /\ callPc' = [callPc EXCEPT ![c] = "done"]
    /\ UNCHANGED <<serviceDirs, lockFiles, createdBy, locksTaken, writeLockQueue,
                   callApp, callForce, callTodo, callPre, callOutcome>>

\* The lock files workloads use: the workload of app1's "main" locks the
\* legacy resin-updates.lock, the second file the supervisor takes in a
\* directory; app1's "aux" and app2's "main" never lock.
WorkloadFiles == {<<"app1", "main", "resin-updates.lock">>}

\* A workload takes or drops its lock file. Workloads do so between two
\* acquisitions of the supervisor, not inside one.
workloadLocks(f) ==
    /\ lockFiles[f] = NoFile
    /\ FileDir(f) \in serviceDirs
    /\ ~Acquiring(FileApp(f))
    /\ lockFiles' = [lockFiles EXCEPT ![f] = Workload]
    /\ UNCHANGED <<serviceDirs, createdBy, locksTaken, writeLockHolder, writeLockQueue,
                   callPc, callApp, callForce, callTodo, callPre, callOutcome>>

workloadUnlocks(f) ==
    /\ lockFiles[f] = Workload
    /\ ~Acquiring(FileApp(f))
    /\ lockFiles' = [lockFiles EXCEPT ![f] = NoFile]
    /\ UNCHANGED <<serviceDirs, createdBy, locksTaken, writeLockHolder, writeLockQueue,
                   callPc, callApp, callForce, callTodo, callPre, callOutcome>>

\* The services that may be removed from the host while the model runs.
RemovableDirs == {lockPath("app1", "aux")}

\* A service is removed from the host: its (empty) lock directory goes.
serviceDirRemoved(d) ==
    /\ d \in serviceDirs
    /\ \A f \in Files : FileDir(f) = d => lockFiles[f] = NoFile
    /\ serviceDirs' = serviceDirs \ {d}
    /\ UNCHANGED <<lockFiles, createdBy, locksTaken, writeLockHolder, writeLockQueue,
                   callPc, callApp, callForce, callTodo, callPre, callOutcome>>

(***************************************************************************)
(* Part 2: device-state.ts, the apply loop                                 *)
(*                                                                         *)
(* The device is abstracted to the release it runs (current) and the       *)
(* release it is asked for (target, or the intermediate target): the plan  *)
(* of a cycle is empty exactly when the two agree, and the steps of a      *)
(* cycle, when they succeed, bring the device to the target they were      *)
(* planned for.                                                            *)
(*                                                                         *)
(* usingInferStepsLock, usingReadLockTarget and usingWriteLockTarget hand  *)
(* Bluebird.using a function, not a disposer: Bluebird treats it as a      *)
(* plain value and never calls it, so no lock is requested and the         *)
(* sections they wrap start at once. The model has no state for them.      *)
(***************************************************************************)

\* Number of events the environment produces in a behaviour: triggers,
\* target writes, failing steps, pauses, intermediate applies, shutdown, and
\* ticks of the clock.
MaxEvents == 3
\* Number of concurrent callers of pausingApply.
NumPausers == 2
Pausers == 1..NumPausers

Releases == {"r1", "r2"}
\* The delays callers of triggerApplyTarget pass, in backoff increments.
Delays == {0, 4}
\* constants.backoffIncrement, the unit of the model's delays.
backoffIncrement == 1
\* maxPollTime (config appUpdatePollInterval), in backoff increments.
maxPollTime == 3

VARIABLES
    applyInProgress,      \* device-state.ts: applyInProgress
    scheduledApply,       \* {} for null, or {[force, delay]}
    cancelDelay,          \* TRUE when cancelDelay holds a reject function
    applyCancelled,
    failedUpdates,
    lastApplyStart,
    lastSuccessfulUpdate, \* {} for null, or {time}
    currentVolatile,      \* the update_* fields of the reported state
    applyBlocker,         \* "undefined", or a promise: "pending", "resolved"
    intermediateTarget,   \* {} for null, or {release}
    shuttingDown,
    target,               \* the stored target state
    current,              \* the state of the device
    now,                  \* the clock
    loopPc,               \* where the run started by triggerApplyTarget stands
    loopSteps,            \* the target the running steps were planned for
    loopResult,           \* what the run's applyTarget emitted as apply-target-state-end
    runForce,             \* the force argument of the run
    runDelay,             \* the delay of the run's timer
    interPc,              \* where the applyIntermediateTarget call stands
    interSteps,
    interResult,
    pausePc,              \* where each pausingApply call stands
    pendingTrigger,       \* a triggerApplyTarget call no applyTarget has started after
    budget                \* events the environment may still produce

applyVars == <<applyInProgress, scheduledApply, cancelDelay, applyCancelled, failedUpdates,
               lastApplyStart, lastSuccessfulUpdate, currentVolatile, applyBlocker,
               intermediateTarget, shuttingDown, target, current, now, loopPc, loopSteps,
               loopResult, runForce, runDelay, interPc, interSteps, interResult, pausePc,
               pendingTrigger, budget>>

\* The variables triggerApplyTarget writes.
triggerVars == <<applyInProgress, scheduledApply, cancelDelay, applyCancelled,
                 loopPc, runForce, runDelay, pendingTrigger>>
\* The variables of the intermediate apply and of pausingApply.
interVars == <<interPc, interSteps, interResult>>

Max(a, b) == IF a >= b THEN a ELSE b
Min(a, b) == IF a <= b THEN a ELSE b
RECURSIVE Pow2(_)
Pow2(n) == IF n = 0 THEN 1 ELSE 2 * Pow2(n - 1)

Sched(force, delay) == [force |-> force, delay |-> delay]
\* The element of a one-element set.
TheSched(s) == CHOOSE x \in s : TRUE

InitApplyVars ==
    /\ applyInProgress = FALSE
    /\ scheduledApply = {}
    /\ cancelDelay = FALSE
    /\ applyCancelled = FALSE
    /\ failedUpdates = 0
    /\ lastApplyStart = 0
    /\ lastSuccessfulUpdate = {}
    /\ currentVolatile = [update_failed |-> FALSE, update_pending |-> FALSE,
                          update_downloaded |-> FALSE]
    /\ applyBlocker = "undefined"
    /\ intermediateTarget = {}
    /\ shuttingDown = FALSE
    /\ target = "r1"
    /\ current = "r1"
    /\ now = 0
    /\ loopPc = "idle"
    /\ loopSteps = {}
    /\ loopResult = "none"
    /\ runForce = FALSE
    /\ runDelay = 0
    /\ interPc = "idle"
    /\ interSteps = {}
    /\ interResult = "none"
    /\ pausePc = [p \in Pausers |-> "idle"]
    /\ pendingTrigger = FALSE
    /\ budget = MaxEvents

\* applyError: min(2^failedUpdates * backoffIncrement, maxPollTime).
Backoff(n) == Min(Pow2(n) * backoffIncrement, maxPollTime)

\* triggerApplyTarget while applyInProgress: the new value of scheduledApply.
\* A call from the API made while cancelDelay is set replaces what was
\* scheduled; any other call is merged into it.
CoalesceLast(sched, force, delay, isFromApi) == {Sched(force, delay)}
Coalesce(sched, force, delay, isFromApi) ==
    IF sched = {} \/ (isFromApi /\ cancelDelay)
       THEN {Sched(force, delay)}
       ELSE {Sched(IF ~TheSched(sched).force THEN force ELSE TRUE,
                   Max(delay, TheSched(sched).delay))}

\* triggerApplyTarget while applyInProgress: whether the call rejects the
\* pending delay (cancelDelay?.()).
CancelsAlways(isFromApi) == cancelDelay
Cancels(isFromApi) ==
    (scheduledApply = {} \/ (isFromApi /\ cancelDelay)) /\ isFromApi /\ cancelDelay

\* triggerApplyTarget with no apply in progress: a new run, waiting in its
\* pre-run delay.
StartRun(force, delay) ==
    /\ applyCancelled' = FALSE
    /\ applyInProgress' = TRUE
    /\ cancelDelay' = TRUE
    /\ loopPc' = "waiting"
    /\ runForce' = force
    /\ runDelay' = delay

\* What a call of triggerApplyTarget({force, delay, isFromApi}) does.
\* The test triggerApplyTarget begins with: a run exists.
InProgressNever == FALSE
InProgress == applyInProgress

TriggerEffect(force, delay, isFromApi) ==
    /\ pendingTrigger' = TRUE
    /\ IF InProgress
          THEN /\ scheduledApply' = Coalesce(scheduledApply, force, delay, isFromApi)
               /\ loopPc' = IF Cancels(isFromApi) /\ loopPc = "waiting"
                               THEN "cancelled" ELSE loopPc
               /\ UNCHANGED <<applyInProgress, cancelDelay, applyCancelled, runForce, runDelay>>
          ELSE /\ StartRun(force, delay)
               /\ UNCHANGED scheduledApply

\* A caller (the API, the target state poll) calls triggerApplyTarget.
triggerApplyTarget(force, delay, isFromApi) ==
    /\ budget > 0
    /\ budget' = budget - 1
    /\ TriggerEffect(force, delay, isFromApi)
    /\ UNCHANGED <<failedUpdates, lastApplyStart, lastSuccessfulUpdate, currentVolatile,
                   applyBlocker, intermediateTarget, shuttingDown, target, current, now,
                   loopSteps, loopResult, interVars, pausePc>>

\* A caller stores a new target with setTarget and then triggers an apply
\* (POST /v2/local/target-state). setTarget clears failedUpdates.
setTarget(t, force) ==
    /\ budget > 0
    /\ budget' = budget - 1
    /\ failedUpdates' = 0
    /\ target' = t
    /\ TriggerEffect(force, 0, FALSE)
    /\ UNCHANGED <<lastApplyStart, lastSuccessfulUpdate, currentVolatile,
                   applyBlocker, intermediateTarget, shuttingDown, current, now,
                   loopSteps, loopResult, interVars, pausePc>>

\* The first lines of a regular applyTarget call: await applyBlocker.
\* A pending blocker holds the call; otherwise it goes on to plan.
PassesBlocker == IF applyBlocker = "pending" THEN "blocked" ELSE "plan"

\* The timer of the run's pre-run delay fires and resolves the delay. The
\* handlers of the delay run later: cancelDelay stays set until then.
timerFires ==
    /\ loopPc = "waiting"
    /\ loopPc' = "fired"
    /\ UNCHANGED <<applyInProgress, scheduledApply, cancelDelay, applyCancelled, failedUpdates,
                   lastApplyStart, lastSuccessfulUpdate, currentVolatile, applyBlocker,
                   intermediateTarget, shuttingDown, target, current, now, loopSteps,
                   loopResult, runForce, runDelay, interVars, pausePc, pendingTrigger,
                   budget>>

\* The .then() handler of an elapsed delay: cancelDelay is cleared,
\* lastApplyStart is set and applyTarget({force, initial}) is called.
runStarts ==
    /\ loopPc = "fired"
    /\ cancelDelay' = FALSE
    /\ lastApplyStart' = now
    /\ pendingTrigger' = FALSE
    /\ loopPc' = PassesBlocker
    /\ UNCHANGED <<applyInProgress, scheduledApply, applyCancelled, failedUpdates,
                   lastSuccessfulUpdate, currentVolatile, applyBlocker, intermediateTarget,
                   shuttingDown, target, current, now, loopSteps, loopResult, runForce,
                   runDelay, interVars, pausePc, budget>>

\* The planner (deviceConfig.getRequiredSteps, applicationManager.getRequiredSteps):
\* the steps that move the device from cur to tgt, named by the state they
\* lead to; none when the device is already there.
RequiredSteps(cur, tgt) == IF cur = tgt THEN {} ELSE {tgt}

\* The executor: the state of the device once the planned steps have run.
ExecuteSteps(planned) == planned

\* The reported fields after an empty plan of a regular apply.
ReportSuccess(v) ==
    [v EXCEPT !.update_failed = FALSE, !.update_pending = FALSE, !.update_downloaded = FALSE]

\* failedUpdates after an empty plan of a regular apply.
FailedAfterSuccessKept(n) == n
FailedAfterSuccess(n) == 0

\* usingInferStepsLock(fn) returns Bluebird.using(inferStepsLock, () => fn()).
\* inferStepsLock is the function that would ask for writeLock("inferSteps");
\* it is handed over uncalled, Bluebird passes it on as a plain value, and fn
\* starts whether or not another call is inside its own section.
InferStepsLockTaken(otherInside) == ~otherInside
usingInferStepsLock(otherInside) == TRUE

\* An applyTarget call is inside the section usingInferStepsLock wraps while
\* its steps run.
RegularInside == loopPc = "steps"
IntermediateInside == interPc = "steps"

\* A cycle of the regular apply plans. An empty plan ends the run with
\* apply-target-state-end(null); otherwise update_pending is reported and
\* the steps start.
applyTargetPlans ==
    /\ loopPc = "plan"
    /\ usingInferStepsLock(IntermediateInside)
    /\ IF RequiredSteps(current, target) = {}
          THEN /\ loopPc' = "settled"
               /\ loopResult' = "success"
               /\ failedUpdates' = FailedAfterSuccess(failedUpdates)
               /\ lastSuccessfulUpdate' = {now}
               /\ currentVolatile' = ReportSuccess(currentVolatile)
               /\ UNCHANGED loopSteps
          ELSE /\ loopPc' = "steps"
               /\ loopSteps' = RequiredSteps(current, target)
               /\ currentVolatile' = [currentVolatile EXCEPT !.update_pending = TRUE]
               /\ UNCHANGED <<loopResult, failedUpdates, lastSuccessfulUpdate>>
    /\ UNCHANGED <<applyInProgress, scheduledApply, cancelDelay, applyCancelled,
                   lastApplyStart, applyBlocker, intermediateTarget, shuttingDown, target,
                   current, now, runForce, runDelay, interVars, pausePc, pendingTrigger,
                   budget>>

\* applyStep: nothing is executed once shuttingDown is set.
AfterStepsStale(planned) == current
AfterSteps(planned) == IF shuttingDown THEN current ELSE ExecuteSteps(planned)

\* The steps of a regular cycle all complete; after the cycle's delay
\* applyTarget calls itself.
applyTargetStepsDone ==
    /\ loopPc = "steps"
    /\ current' = AfterSteps(TheSched(loopSteps))
    /\ currentVolatile' = [currentVolatile EXCEPT
                              !.update_downloaded = IF shuttingDown THEN @ ELSE TRUE]
    /\ loopSteps' = {}
    /\ loopPc' = PassesBlocker
    /\ UNCHANGED <<applyInProgress, scheduledApply, cancelDelay, applyCancelled,
                   failedUpdates, lastApplyStart, lastSuccessfulUpdate, applyBlocker,
                   intermediateTarget, shuttingDown, target, now, loopResult, runForce,
                   runDelay, interVars, pausePc, pendingTrigger, budget>>

\* applyError of a regular apply: what it leaves in scheduledApply. With an
\* apply already scheduled it schedules nothing; otherwise it calls
\* triggerApplyTarget({force, delay}), which, an apply being in progress,
\* stores {force, delay}.
ErrorScheduleNoBackoff(sched, force, failed) ==
    IF sched # {} THEN sched ELSE {Sched(force, 0)}
ErrorSchedule(sched, force, failed) ==
    IF sched # {} THEN sched ELSE Coalesce(sched, force, Backoff(failed), FALSE)

\* A step of a regular cycle fails: applyError.
applyTargetStepsFail(err) ==
    /\ loopPc = "steps"
    /\ ~shuttingDown
    /\ budget > 0
    /\ budget' = budget - 1
    /\ loopSteps' = {}
    /\ loopPc' = "settled"
    /\ loopResult' = err
    /\ failedUpdates' = failedUpdates + 1
    /\ currentVolatile' = [currentVolatile EXCEPT !.update_failed = TRUE]
    /\ scheduledApply' = ErrorSchedule(scheduledApply, runForce, failedUpdates + 1)
    /\ pendingTrigger' = IF scheduledApply = {} THEN TRUE ELSE pendingTrigger
    /\ UNCHANGED <<applyInProgress, cancelDelay, applyCancelled, lastApplyStart,
                   lastSuccessfulUpdate, applyBlocker, intermediateTarget, shuttingDown,
                   target, current, now, runForce, runDelay, interVars, pausePc>>

\* What the .finally() handler of a run does with scheduledApply.
ReissueNever(sched) == FALSE
Reissue(sched) == sched # {}

\* The end of a run, cancelled or settled: the .catch(), .then() and
\* .finally() handlers. applyInProgress is cleared and a scheduled apply is
\* triggered at once.
runEnds ==
    /\ loopPc \in {"cancelled", "settled"}
    /\ loopResult' = "none"
    /\ scheduledApply' = {}
    /\ IF Reissue(scheduledApply)
          THEN StartRun(TheSched(scheduledApply).force, TheSched(scheduledApply).delay)
          ELSE /\ applyCancelled' = (applyCancelled \/ loopPc = "cancelled")
               /\ applyInProgress' = FALSE
               /\ cancelDelay' = FALSE
               /\ loopPc' = "idle"
               /\ UNCHANGED <<runForce, runDelay>>
    /\ UNCHANGED <<failedUpdates, lastApplyStart, lastSuccessfulUpdate, currentVolatile,
                   applyBlocker, intermediateTarget, shuttingDown, target, current, now,
                   loopSteps, interVars, pausePc, pendingTrigger, budget>>


\* pausingApply(fn) is called: it asks for writeLock("pause"). A call takes
\* the lowest number no running call has.
pausingApply(p) ==
    /\ pausePc[p] = "idle"
    /\ \A q \in Pausers : q < p => pausePc[q] # "idle"
    /\ budget > 0
    /\ budget' = budget - 1
    /\ pausePc' = [pausePc EXCEPT ![p] = "waiting"]
    /\ UNCHANGED <<triggerVars, failedUpdates, lastApplyStart, lastSuccessfulUpdate,
                   currentVolatile, applyBlocker, intermediateTarget, shuttingDown, target,
                   current, now, loopSteps, loopResult, interVars>>

PauseLockFree == \A q \in Pausers : pausePc[q] # "thunk"

\* The lock is granted: pause() installs a new pending applyBlocker and the
\* thunk starts.
pauseStarts(p) ==
    /\ pausePc[p] = "waiting"
    /\ PauseLockFree
    /\ pausePc' = [pausePc EXCEPT ![p] = "thunk"]
    /\ applyBlocker' = "pending"
    /\ UNCHANGED <<triggerVars, failedUpdates, lastApplyStart, lastSuccessfulUpdate,
                   currentVolatile, intermediateTarget, shuttingDown, target, current, now,
                   loopSteps, loopResult, interVars, budget>>

\* The thunk returns or throws: the disposers resolve the blocker, which
\* lets a held applyTarget call go on, and release the lock.
pauseEnds(p) ==
    /\ pausePc[p] = "thunk"
    /\ pausePc' = [pausePc EXCEPT ![p] = "idle"]
    /\ applyBlocker' = "resolved"
    /\ loopPc' = IF loopPc = "blocked" THEN "plan" ELSE loopPc
    /\ UNCHANGED <<applyInProgress, scheduledApply, cancelDelay, applyCancelled, runForce,
                   runDelay, pendingTrigger, failedUpdates, lastApplyStart,
                   lastSuccessfulUpdate, currentVolatile, intermediateTarget, shuttingDown,
                   target, current, now, loopSteps, loopResult, interVars, budget>>

\* applyIntermediateTarget(t): the intermediate target is stored and
\* applyTarget({intermediate: true}) is called; it does not await the blocker.
applyIntermediateTarget(t) ==
    /\ interPc = "idle"
    /\ budget > 0
    /\ budget' = budget - 1
    /\ intermediateTarget' = {t}
    /\ interPc' = "plan"
    /\ UNCHANGED <<triggerVars, failedUpdates, lastApplyStart, lastSuccessfulUpdate,
                   currentVolatile, applyBlocker, shuttingDown, target, current, now,
                   loopSteps, loopResult, interSteps, interResult, pausePc>>

\* A cycle of the intermediate apply plans against intermediateTarget. An
\* empty plan emits apply-target-state-end(null) and nothing else; the caller's
\* .then() clears intermediateTarget.
intermediatePlans ==
    /\ interPc = "plan"
    /\ usingInferStepsLock(RegularInside)
    /\ IF RequiredSteps(current, TheSched(intermediateTarget)) = {}
          THEN /\ interPc' = "settled"
               /\ interResult' = "success"
               /\ intermediateTarget' = {}
               /\ UNCHANGED interSteps
          ELSE /\ interPc' = "steps"
               /\ interSteps' = RequiredSteps(current, TheSched(intermediateTarget))
               /\ UNCHANGED <<interResult, intermediateTarget>>
    /\ UNCHANGED <<triggerVars, failedUpdates, lastApplyStart, lastSuccessfulUpdate,
                   currentVolatile, applyBlocker, shuttingDown, target, current, now,
                   loopSteps, loopResult, pausePc, budget>>

\* The steps of an intermediate cycle all complete; applyTarget calls itself.
intermediateStepsDone ==
    /\ interPc = "steps"
    /\ current' = AfterSteps(TheSched(interSteps))
    /\ interSteps' = {}
    /\ interPc' = "plan"
    /\ UNCHANGED <<triggerVars, failedUpdates, lastApplyStart, lastSuccessfulUpdate,
                   currentVolatile, applyBlocker, intermediateTarget, shuttingDown, target,
                   now, loopSteps, loopResult, interResult, pausePc, budget>>

\* A step of an intermediate cycle fails: applyError emits the error and
\* rethrows it; intermediateTarget stays as it is.
intermediateStepsFail(err) ==
    /\ interPc = "steps"
    /\ ~shuttingDown
    /\ budget > 0
    /\ budget' = budget - 1
    /\ interSteps' = {}
    /\ interPc' = "settled"
    /\ interResult' = err
    /\ UNCHANGED <<triggerVars, failedUpdates, lastApplyStart, lastSuccessfulUpdate,
                   currentVolatile, applyBlocker, intermediateTarget, shuttingDown, target,
                   current, now, loopSteps, loopResult, pausePc>>

\* The caller of applyIntermediateTarget takes the result.
intermediateReturns ==
    /\ interPc = "settled"
    /\ interPc' = "idle"
    /\ interResult' = "none"
    /\ UNCHANGED <<triggerVars, failedUpdates, lastApplyStart, lastSuccessfulUpdate,
                   currentVolatile, applyBlocker, intermediateTarget, shuttingDown, target,
                   current, now, loopSteps, loopResult, interSteps, pausePc, budget>>

\* reboot() and shutdown() set shuttingDown once the services are stopped.
shutdown ==
    /\ ~shuttingDown
    /\ budget > 0
    /\ budget' = budget - 1
    /\ shuttingDown' = TRUE
    /\ UNCHANGED <<triggerVars, failedUpdates, lastApplyStart, lastSuccessfulUpdate,
                   currentVolatile, applyBlocker, intermediateTarget, target, current, now,
                   loopSteps, loopResult, interVars, pausePc>>

\* Time passes: the clock advances by one.
tick ==
    /\ budget > 0
    /\ budget' = budget - 1
    /\ now' = now + 1
    /\ UNCHANGED <<triggerVars, failedUpdates, lastApplyStart, lastSuccessfulUpdate,
                   currentVolatile, applyBlocker, intermediateTarget, shuttingDown, target,
                   current, loopSteps, loopResult, interVars, pausePc>>

(***************************************************************************)
(* Part 3: device-state.ts, setTarget and getTarget                        *)
(*                                                                         *)
(* The stored target has three parts, written by setTarget in one          *)
(* db.transaction and read by getTarget one after the other: the device    *)
(* name, the device configuration and the apps. A target is abstracted to  *)
(* the release it asks for, so the three parts of one target are equal.    *)
(* A transaction publishes its writes when it commits.                     *)
(***************************************************************************)

NumSetters == 2
Setters == 1..NumSetters

NotRead == "none"
TargetParts == {"name", "config", "apps"}

VARIABLES
    stored,     \* the committed target: a release for each part
    setPc,      \* where each setTarget call stands
    setVal,     \* the target each setTarget call was given
    getPc,      \* where the getTarget call stands
    getVal      \* what the getTarget call has read, then what it returned

targetVars == <<stored, setPc, setVal, getPc, getVal>>

InitTargetVars ==
    /\ stored = [part \in TargetParts |-> "r1"]
    /\ setPc = [w \in Setters |-> "idle"]
    /\ setVal = [w \in Setters |-> "r1"]
    /\ getPc = "idle"
    /\ getVal = [part \in TargetParts |-> NotRead]

\* usingWriteLockTarget(fn) and usingReadLockTarget(fn) return
\* Bluebird.using(writeLockTarget, () => fn()) and
\* Bluebird.using(readLockTarget, () => fn()): the lock functions are handed
\* over uncalled, so fn starts whether or not another call is inside.
usingWriteLockTarget(otherInside) == TRUE
usingReadLockTarget(writerInside) == TRUE

SetterInside(w) == setPc[w] # "idle"
GetterInside == getPc # "idle"

\* setTarget(t) is called; after config.get('apiEndpoint') it opens its
\* transaction and issues the write of the name. A call takes the lowest
\* number no running call has.
setTargetOpens(w, t) ==
    /\ setPc[w] = "idle"
    /\ \A x \in Setters : x < w => setPc[x] # "idle"
    /\ usingWriteLockTarget(GetterInside \/ \E x \in Setters \ {w} : SetterInside(x))
    /\ setPc' = [setPc EXCEPT ![w] = "name"]
    /\ setVal' = [setVal EXCEPT ![w] = t]
    /\ UNCHANGED <<stored, getPc, getVal>>

\* The write awaited inside the transaction is done and the next is issued:
\* config.set({name}), deviceConfig.setTarget, applicationManager.setTarget.
NextWrite(pc) == IF pc = "name" THEN "config" ELSE "apps"
setTargetWrites(w) ==
    /\ setPc[w] \in {"name", "config"}
    /\ setPc' = [setPc EXCEPT ![w] = NextWrite(setPc[w])]
    /\ UNCHANGED <<stored, setVal, getPc, getVal>>

\* The last write is done and the transaction commits.
Commit(t) == [part \in TargetParts |-> t]
setTargetCommits(w) ==
    /\ setPc[w] = "apps"
    /\ stored' = Commit(setVal[w])
    /\ setPc' = [setPc EXCEPT ![w] = "idle"]
    /\ setVal' = [setVal EXCEPT ![w] = "r1"]
    /\ UNCHANGED <<getPc, getVal>>

\* getTarget() is called: it issues config.get('name').
getTarget ==
    /\ getPc = "idle"
    /\ usingReadLockTarget(\E w \in Setters : SetterInside(w))
    /\ getPc' = "name"
    /\ getVal' = [part \in TargetParts |-> NotRead]
    /\ UNCHANGED <<stored, setPc, setVal>>

\* The read awaited by getTarget returns and the next is issued:
\* config.get('name'), deviceConfig.getTarget, dbFormat.getApps.
getTargetReads ==
    /\ getPc \in TargetParts
    /\ getVal' = [getVal EXCEPT ![getPc] = stored[getPc]]
    /\ getPc' = IF getPc = "apps" THEN "dependent" ELSE NextWrite(getPc)
    /\ UNCHANGED <<stored, setPc, setVal>>

\* applicationManager.getDependentTargets returns and getTarget returns the
\* object it has built.
getTargetReturns ==
    /\ getPc = "dependent"
    /\ getPc' = "idle"
    /\ UNCHANGED <<stored, setPc, setVal, getVal>>

(***************************************************************************)
(* Part 4: device-state.ts, the reboot and shutdown requests               *)
(*                                                                         *)
(* A request runs rebootOrShutdown, which reads lockOverride, then calls   *)
(* executeStepAction({action}, {force}) and so reboot() or shutdown():     *)
(* applicationManager.stopAll, then the host primitive (dbus.reboot or     *)
(* dbus.shutdown), then shuttingDown = true and the shutdown event.        *)
(***************************************************************************)

NumRequests == 2
Requests == 1..NumRequests

HostActions == {"reboot", "shutdown"}
\* req.body.force: undefined, false or true.
BodyForces == {"undefined", "false", "true"}
NoResponse == {}

VARIABLES
    lockOverride,    \* the lockOverride configuration value
    workloadLocked,  \* a workload holds an update lock of a running service
    reqPc,           \* where each request stands
    reqAction,       \* "reboot" or "shutdown"
    reqBodyForce,    \* req.body.force
    reqForce,        \* the force handed to executeStepAction
    reqStopAll,      \* how the request's stopAll call ended
    reqPrimitive,    \* how often the request invoked the host primitive
    reqOutcome,      \* how executeStepAction ended
    reqResponse,     \* {} or {the response sent}
    shutdownEvents   \* how often the shutdown event was emitted

rebootVars == <<lockOverride, workloadLocked, reqPc, reqAction, reqBodyForce, reqForce,
                reqStopAll, reqPrimitive, reqOutcome, reqResponse, shutdownEvents>>

InitRequests ==
    /\ reqPc = [r \in Requests |-> "idle"]
    /\ reqAction = [r \in Requests |-> "reboot"]
    /\ reqBodyForce = [r \in Requests |-> "undefined"]
    /\ reqForce = [r \in Requests |-> FALSE]
    /\ reqStopAll = [r \in Requests |-> "none"]
    /\ reqPrimitive = [r \in Requests |-> 0]
    /\ reqOutcome = [r \in Requests |-> "none"]
    /\ reqResponse = [r \in Requests |-> NoResponse]
    /\ shutdownEvents = 0

\* No request is made: the configuration and the workloads play no part.
InitRebootVars == InitRequests /\ lockOverride = FALSE /\ workloadLocked = FALSE

\* validation.checkTruthy(req.body.force).
checkTruthy(v) == v = "true"

\* rebootOrShutdown: the force handed to executeStepAction.
ForceOf(bodyForce, override) == checkTruthy(bodyForce) \/ override

\* rebootOrShutdown: the response for each way executeStepAction can end.
ResponseAlwaysAccepted(outcome) == [status |-> 202, Data |-> "OK", Error |-> "null"]
ResponseOf(outcome) ==
    IF outcome = "ok"
       THEN [status |-> 202, Data |-> "OK", Error |-> "null"]
       ELSE [status |-> IF outcome = "UpdatesLockedError" THEN 423 ELSE 500,
             Data |-> "", Error |-> outcome]

\* applicationManager.stopAll({force}): it stops every service under the
\* update lock, which fails with UpdatesLockedError when a workload holds a
\* lock and force is not set; stopping a service can also fail otherwise.
StopAllOutcomes(force) ==
    (IF workloadLocked /\ ~force THEN {"UpdatesLockedError"} ELSE {"ok"}) \cup {"Error"}

\* POST /v1/reboot or /v1/shutdown arrives: rebootOrShutdown awaits
\* config.get('lockOverride'). A request takes the lowest unused number.
rebootOrShutdown(r, action, bodyForce) ==
    /\ reqPc[r] = "idle"
    /\ \A q \in Requests : q < r => reqPc[q] # "idle"
    /\ reqPc' = [reqPc EXCEPT ![r] = "config"]
    /\ reqAction' = [reqAction EXCEPT ![r] = action]
    /\ reqBodyForce' = [reqBodyForce EXCEPT ![r] = bodyForce]
    /\ UNCHANGED <<lockOverride, workloadLocked, reqForce, reqStopAll, reqPrimitive,
                   reqOutcome, reqResponse, shutdownEvents, shuttingDown>>

\* lockOverride is read: executeStepAction({action}, {force}) is called and
\* reboot() or shutdown() calls applicationManager.stopAll({force}).
executeStepAction(r) ==
    /\ reqPc[r] = "config"
    /\ reqForce' = [reqForce EXCEPT ![r] = ForceOf(reqBodyForce[r], lockOverride)]
    /\ reqPc' = [reqPc EXCEPT ![r] = "stopAll"]
    /\ UNCHANGED <<lockOverride, workloadLocked, reqAction, reqBodyForce, reqStopAll,
                   reqPrimitive, reqOutcome, reqResponse, shutdownEvents, shuttingDown>>

\* reboot() and shutdown() after stopAll: a failure is thrown on to the
\* request handler; after a success the host primitive is invoked.
PrimitiveAlways(stopped) == TRUE
InvokesPrimitive(stopped) == stopped = "ok"

\* stopAll settles.
stopAllSettles(r, stopped) ==
    /\ reqPc[r] = "stopAll"
    /\ stopped \in StopAllOutcomes(reqForce[r])
    /\ reqStopAll' = [reqStopAll EXCEPT ![r] = stopped]
    /\ IF InvokesPrimitive(stopped)
          THEN /\ reqPrimitive' = [reqPrimitive EXCEPT ![r] = @ + 1]
               /\ reqPc' = [reqPc EXCEPT ![r] = "primitive"]
               /\ UNCHANGED <<reqOutcome, reqResponse>>
          ELSE /\ reqOutcome' = [reqOutcome EXCEPT ![r] = stopped]
               /\ reqResponse' = [reqResponse EXCEPT ![r] = {ResponseOf(stopped)}]
               /\ reqPc' = [reqPc EXCEPT ![r] = "done"]
               /\ UNCHANGED reqPrimitive
    /\ UNCHANGED <<lockOverride, workloadLocked, reqAction, reqBodyForce, reqForce,
                   shutdownEvents, shuttingDown>>

\* The host primitive returns: shuttingDown is set, the shutdown event is
\* emitted and the request is answered. A primitive that fails leaves
\* shuttingDown alone and its error goes to the request handler.
primitiveSettles(r, returned) ==
    /\ reqPc[r] = "primitive"
    /\ reqOutcome' = [reqOutcome EXCEPT ![r] = returned]
    /\ reqResponse' = [reqResponse EXCEPT ![r] = {ResponseOf(returned)}]
    /\ reqPc' = [reqPc EXCEPT ![r] = "done"]
    /\ shuttingDown' = (shuttingDown \/ returned = "ok")
    /\ shutdownEvents' = shutdownEvents + (IF returned = "ok" THEN 1 ELSE 0)
    /\ UNCHANGED <<lockOverride, workloadLocked, reqAction, reqBodyForce, reqForce,
                   reqStopAll, reqPrimitive>>

\* The variables of the apply loop the requests leave alone.
applyVarsButShuttingDown ==
    <<applyInProgress, scheduledApply, cancelDelay, applyCancelled, failedUpdates,
      lastApplyStart, lastSuccessfulUpdate, currentVolatile, applyBlocker,
      intermediateTarget, target, current, now, loopPc, loopSteps, loopResult, runForce,
      runDelay, interPc, interSteps, interResult, pausePc, pendingTrigger, budget>>

(***************************************************************************)
(* Part 5: the v2 API (createV2Api)                                        *)
(*                                                                         *)
(* One request is followed from its arrival to its response. The device    *)
(* runs two applications; their services, images and volumes are fixed.    *)
(* The executor is abstracted to whether a step asks for the update lock   *)
(* and whether the lock refuses it.                                        *)
(***************************************************************************)

\* The cloud key and a key scoped to each application.
Keys == {"cloud", "key1", "key2"}
\* req.auth.isScoped({apps: [appId]}).
isScoped(key, app) ==
    key = "cloud" \/ (key = "key1" /\ app = "app1") \/ (key = "key2" /\ app = "app2")

\* req.params.appId: an application of the device, an application the device
\* does not have, or text that is no number.
AppParams == Apps \cup {"app9", "invalid"}
AnyParam(param) == TRUE
checkInt(param) == param # "invalid"

Service(app, name, image) == [appId |-> app, serviceName |-> name, imageId |-> image]
\* serviceManager.getAll() and images.getStatus(), in the order they list.
DeviceServices ==
    <<Service("app1", "main", "i1"), Service("app1", "aux", "i2"), Service("app2", "main", "i3")>>
ServicesOf(app) == {DeviceServices[i] : i \in {j \in 1..Len(DeviceServices) : DeviceServices[j].appId = app}}
ImageParams == {"null", "i1", "i2", "i3"}
NameParams == {"null", "main", "aux", "unknown"}

\* The volumes of the target apps, and an orphan no target app refers to.
TargetVolumes(app) == {<<app, "data">>}
Orphans == {<<"app9", "old">>}

ServiceEndpoints == {"start-service", "stop-service", "restart-service"}
AppEndpoints == {"purge", "restart", "app-state"}
ListEndpoints == {"apps-state", "containerId", "state-status", "local-target-state",
                  "cleanup-volumes"}

Request(endpoint, key, appId, imageId, serviceName, force) ==
    [endpoint |-> endpoint, key |-> key, appId |-> appId, imageId |-> imageId,
     serviceName |-> serviceName, force |-> force]
NoRequest == Request("none", "none", "null", "null", "null", "undefined")

VARIABLES
    apiPc,             \* where the request stands
    apiReq,            \* the request
    apiStatus,         \* the status of its response, 0 before
    apiItems,          \* what the response tells: <<kind, appId, name>> of each item
    targetVolatile,    \* imageId -> the running overlay: "unset", "running", "stopped"
    executorCalls,     \* the steps handed to applicationManager.executeStep
    lockCalls,         \* the lock(appId, {force}) calls made
    appOps,            \* the doPurge and doRestart calls made: <<endpoint, appId>>
    volumes,           \* the volumes on the device
    mountedVolumes,    \* those a container mounts
    referencedVolumes, \* {} or {the list handed to removeOrphanedVolumes}
    containers,        \* serviceManager.getAll(), in the order it lists
    imageStatus,       \* images.getStatus(), in the order it lists
    apiPending,        \* what isApplyInProgress() told the handler
    apiRelease,        \* the commit in the response: "none" when it has no such field
    apiAppState        \* appState in the response: "none" when it has no such field

apiVars == <<apiPc, apiReq, apiStatus, apiItems, targetVolatile, executorCalls, lockCalls,
             appOps, volumes, mountedVolumes, referencedVolumes, containers, imageStatus,
             apiPending, apiRelease, apiAppState>>

\* The fields of a response the handlers of the status endpoints fill.
statusFields == <<apiPending, apiRelease, apiAppState>>

AllVolumes == UNION {TargetVolumes(a) : a \in Apps} \cup Orphans

InitApiRequest ==
    /\ apiPc = "idle"
    /\ apiReq = NoRequest
    /\ apiStatus = 0
    /\ apiItems = {}
    /\ targetVolatile = [i \in {"i1", "i2", "i3"} |-> "unset"]
    /\ executorCalls = <<>>
    /\ lockCalls = <<>>
    /\ appOps = {}
    /\ volumes = AllVolumes
    /\ referencedVolumes = {}
    /\ apiPending = FALSE
    /\ apiRelease = "none"
    /\ apiAppState = "none"

\* The device runs every service of DeviceServices and holds its image.
InitDevice == containers = DeviceServices /\ imageStatus = DeviceServices

\* No request is made.
InitApiVars == InitApiRequest /\ InitDevice /\ mountedVolumes = {}

\* The handlers' scope check: !req.auth.isScoped({apps: [appId]}).
NeverOutOfScope(key, app) == FALSE
OutOfScope(key, app) == ~isScoped(key, app)

\* The request is answered.
Respond(status, items) ==
    /\ apiPc' = "done"
    /\ apiStatus' = status
    /\ apiItems' = items

\* A request arrives and its handler runs up to its first await. The service
\* actions, purge and restart answer 400 to an appId that is no number and
\* 401 to one out of the key's scope; purge and restart then call doPurge or
\* doRestart. The other handlers start with a read.
v2Request(req) ==
    /\ apiPc = "idle"
    /\ apiReq' = req
    /\ IF req.endpoint \in ServiceEndpoints \cup {"purge", "restart"}
          THEN IF ~checkInt(req.appId)
                  THEN Respond(400, {}) /\ UNCHANGED appOps
                  ELSE IF OutOfScope(req.key, req.appId)
                          THEN Respond(401, {}) /\ UNCHANGED appOps
                          ELSE IF req.endpoint \in ServiceEndpoints
                                  THEN /\ apiPc' = "lookup"
                                       /\ UNCHANGED <<apiStatus, apiItems, appOps>>
                                  ELSE /\ apiPc' = "appOp"
                                       /\ appOps' = appOps \cup {<<req.endpoint, req.appId>>}
                                       /\ UNCHANGED <<apiStatus, apiItems>>
          ELSE IF req.endpoint = "app-state" /\ ~checkInt(req.appId)
                  THEN Respond(400, {}) /\ UNCHANGED appOps
                  ELSE /\ apiPc' = "reading"
                       /\ UNCHANGED <<apiStatus, apiItems, appOps>>
    /\ apiPending' = IF req.endpoint = "state-status" THEN applyInProgress ELSE apiPending
    /\ UNCHANGED <<targetVolatile, executorCalls, lockCalls, volumes, mountedVolumes,
                   referencedVolumes, containers, imageStatus, apiRelease, apiAppState>>

\* handleServiceAction: the service the request names, by imageId when the
\* body has one, by serviceName otherwise ({} when the app has none such).
FindByName(app, imageId, serviceName) ==
    IF serviceName # "null"
       THEN {s \in ServicesOf(app) : s.serviceName = serviceName}
       ELSE {s \in ServicesOf(app) : s.imageId = imageId}
FindService(app, imageId, serviceName) ==
    IF imageId # "null"
       THEN {s \in ServicesOf(app) : s.imageId = imageId}
       ELSE {s \in ServicesOf(app) : s.serviceName = serviceName}

\* generateStep(action, {current: service, ...}): the action of the step.
ActionOf(endpoint) ==
    IF endpoint = "start-service" THEN "start"
    ELSE IF endpoint = "stop-service" THEN "stop" ELSE "restart"
StepRestarts(endpoint) == "restart"
StepAction(endpoint) == ActionOf(endpoint)

\* The force handed to executeStep: req.body.force as it came.
ExecutorForceDropped(force) == "undefined"
ExecutorForce(force) == force

\* The error handler of the API: 423 for an UpdatesLockedError, 500 otherwise.
ErrorStatus(err) == IF err = "UpdatesLockedError" THEN 423 ELSE 500

\* handleServiceAction once getCurrentApps() and getApp(appId) have resolved.
serviceLookup ==
    /\ apiPc = "lookup"
    /\ LET found == FindService(apiReq.appId, apiReq.imageId, apiReq.serviceName) IN
       IF apiReq.appId \notin Apps
          THEN Respond(404, {}) /\ UNCHANGED <<targetVolatile, executorCalls>>
          ELSE IF apiReq.imageId = "null" /\ apiReq.serviceName = "null"
                  THEN Respond(ErrorStatus("Error"), {})
                       /\ UNCHANGED <<targetVolatile, executorCalls>>
                  ELSE IF found = {}
                          THEN Respond(404, {}) /\ UNCHANGED <<targetVolatile, executorCalls>>
                          ELSE LET service == CHOOSE s \in found : TRUE IN
                               /\ targetVolatile' =
                                     [targetVolatile EXCEPT ![service.imageId] =
                                         IF ActionOf(apiReq.endpoint) # "stop"
                                            THEN "running" ELSE "stopped"]
                               /\ executorCalls' = Append(executorCalls,
                                     [action |-> StepAction(apiReq.endpoint),
                                      current |-> service,
                                      force |-> ExecutorForce(apiReq.force)])
                               /\ apiPc' = "executing"
                               /\ UNCHANGED <<apiStatus, apiItems>>
    /\ UNCHANGED <<apiReq, lockCalls, appOps, volumes, mountedVolumes, referencedVolumes,
                   containers, imageStatus, statusFields>>

\* The executor: the start step of the API runs without the update lock;
\* stop, restart, purge ask for it.
TakesLock(action) == action # "start"
\* lock(appId, {force}, fn) refuses when a workload holds a lock file and
\* force is not set.
LockRefuses(force) == workloadLocked /\ force # "true"

\* executeStep settles and the request is answered.
executeStepSettles ==
    /\ apiPc = "executing"
    /\ LET step == executorCalls[Len(executorCalls)] IN
       IF TakesLock(step.action)
          THEN /\ lockCalls' = Append(lockCalls, [appId |-> step.current.appId,
                                                  force |-> step.force])
               /\ IF LockRefuses(step.force)
                     THEN Respond(ErrorStatus("UpdatesLockedError"), {})
                     ELSE Respond(200, {})
          ELSE /\ Respond(200, {})
               /\ UNCHANGED lockCalls
    /\ UNCHANGED <<apiReq, targetVolatile, executorCalls, appOps, volumes, mountedVolumes,
                   referencedVolumes, containers, imageStatus, statusFields>>

\* doPurge or doRestart settles: both work under the update lock of the app.
appOpSettles ==
    /\ apiPc = "appOp"
    /\ lockCalls' = Append(lockCalls, [appId |-> apiReq.appId, force |-> apiReq.force])
    /\ IF LockRefuses(apiReq.force)
          THEN Respond(ErrorStatus("UpdatesLockedError"), {})
          ELSE Respond(200, {})
    /\ UNCHANGED <<apiReq, targetVolatile, executorCalls, appOps, volumes, mountedVolumes,
                   referencedVolumes, containers, imageStatus, statusFields>>

\* The items of a list of services, told as kind.
Items(kind, services) ==
    {<<kind, services[i].appId, services[i].serviceName>> : i \in 1..Len(services)}
Scoped(key, services) == SelectSeq(services, LAMBDA s : isScoped(key, s.appId))
OfApp(app, services) == SelectSeq(services, LAMBDA s : s.appId = app)

\* commitStore.getCommitForApp(appId): the commit of an app, "null" when
\* there is none.
getCommitForApp(app) ==
    IF app = "app1" THEN "commit1" ELSE IF app = "app2" THEN "commit2" ELSE "null"

\* applicationManager.getStatus().local: the apps that have a service or an
\* image on the device.
AppsOf(list) == {list[i].appId : i \in 1..Len(list)}
LocalApps == AppsOf(containers) \cup AppsOf(imageStatus)

\* GET /v2/applications/:appId/state: 409 for an app the device does not
\* have or the key does not cover, else the commit and the state of that
\* app alone.
appState(req) ==
    IF req.appId \notin LocalApps \/ ~isScoped(req.key, req.appId)
       THEN Respond(409, {}) /\ UNCHANGED <<apiRelease, apiAppState>>
       ELSE /\ Respond(200, Items("service", OfApp(req.appId, containers))
                               \cup Items("image", OfApp(req.appId, imageStatus)))
            /\ apiRelease' = getCommitForApp(req.appId)
            /\ UNCHANGED apiAppState

\* GET /v2/applications/state: the apps and the images in scope.
appsState(req) ==
    Respond(200, {<<"app", a, "">> : a \in {b \in Apps : isScoped(req.key, b)}}
                    \cup Items("image", Scoped(req.key, DeviceServices)))

\* GET /v2/containerId: the containers of the services in scope, or the one
\* of the service named; 503 when none has the name.
containerId(req) ==
    LET services == Scoped(req.key, DeviceServices)
        named == SelectSeq(services, LAMBDA s : s.serviceName = req.serviceName)
    IN  IF req.serviceName = "null"
           THEN Respond(200, Items("container", services))
           ELSE IF named = <<>>
                   THEN Respond(503, {})
                   ELSE Respond(200, Items("container", <<named[1]>>))

\* GET /v2/state/status: appIds[0] is the app of the first service in scope,
\* or of the first image in scope when no service is; "undefined" when
\* neither is.
LastAppId(appIds) == IF appIds = <<>> THEN "undefined" ELSE appIds[Len(appIds)].appId
FirstAppId(appIds) == IF appIds = <<>> THEN "undefined" ELSE appIds[1].appId

AppStateOf(pending) == IF pending THEN "applying" ELSE "applied"

\* GET /v2/state/status: the containers and images in scope that belong to
\* that app, its commit, and whether an apply was in progress.
stateStatus(req) ==
    LET containerStates == Scoped(req.key, containers)
        imagesStates == Scoped(req.key, imageStatus)
        appId == FirstAppId(containerStates \o imagesStates)
    IN  /\ Respond(200, Items("container", OfApp(appId, containerStates))
                            \cup Items("image", OfApp(appId, imagesStates)))
        /\ apiRelease' = getCommitForApp(appId)
        /\ apiAppState' = AppStateOf(apiPending)

\* GET /v2/local/target-state: the whole target, as getTarget returns it.
localTargetState(req) == Respond(200, {<<"target", a, "">> : a \in Apps})

\* GET /v2/cleanup-volumes: the volumes of the target apps in scope.
Referenced(key) == UNION {TargetVolumes(a) : a \in {b \in Apps : isScoped(key, b)}}
\* volumeManager.removeOrphanedVolumes(referenced): what is left.
removeOrphanedVolumes(onDevice, referenced) ==
    {v \in onDevice : v \in referenced \/ v \in mountedVolumes}

\* The read a handler awaited has resolved: the rest of the handler runs.
v2Responds ==
    /\ apiPc = "reading"
    /\ CASE apiReq.endpoint = "app-state" -> appState(apiReq)
         [] apiReq.endpoint = "apps-state" ->
               appsState(apiReq) /\ UNCHANGED <<apiRelease, apiAppState>>
         [] apiReq.endpoint = "containerId" ->
               containerId(apiReq) /\ UNCHANGED <<apiRelease, apiAppState>>
         [] apiReq.endpoint = "state-status" -> stateStatus(apiReq)
         [] apiReq.endpoint = "local-target-state" ->
               localTargetState(apiReq) /\ UNCHANGED <<apiRelease, apiAppState>>
         [] apiReq.endpoint = "cleanup-volumes" ->
               Respond(200, {}) /\ UNCHANGED <<apiRelease, apiAppState>>
    /\ IF apiReq.endpoint = "cleanup-volumes"
          THEN /\ referencedVolumes' = {Referenced(apiReq.key)}
               /\ volumes' = removeOrphanedVolumes(volumes, Referenced(apiReq.key))
          ELSE UNCHANGED <<volumes, referencedVolumes>>
    /\ UNCHANGED <<apiReq, targetVolatile, executorCalls, lockCalls, appOps, mountedVolumes,
                   containers, imageStatus, apiPending>>

\* GET /v2/applications/:appId/state: applicationManager.getStatus() fails
\* and the handler answers 500.
appStatusFails ==
    /\ apiPc = "reading"
    /\ apiReq.endpoint = "app-state"
    /\ Respond(500, {})
    /\ UNCHANGED <<apiReq, targetVolatile, executorCalls, lockCalls, appOps, volumes,
                   mountedVolumes, referencedVolumes, containers, imageStatus, statusFields>>

(***************************************************************************)
(* Part 6: the v2 API, POST /v2/regenerate-api-key                         *)
(*                                                                         *)
(* A key is <<owner, n>>: the n-th key issued to the cloud or to a         *)
(* service. The key store (lib/api-keys) holds the keys that are valid and *)
(* the cloud key; refreshKey replaces a key by a new one of its owner.     *)
(***************************************************************************)

NumRefreshes == 2
KeyOwners == {"cloud", "service"}
AllKeys == KeyOwners \X (0..NumRefreshes)
NoProbe == {}

VARIABLES
    validKeys,     \* the keys the key store accepts
    cloudApiKey,   \* apiKeys.cloudApiKey
    issued,        \* how many keys refreshKey has issued
    keyPc,         \* where the regenerate-api-key request stands
    keyAuth,       \* req.auth.apiKey
    keyShould,     \* shouldUpdateCloudKey
    keyNew,        \* {} or {the key returned}
    keyStatus,     \* the status of the response, 0 before
    reported,      \* the api_secret values the request handed to reportCurrentState
    probe          \* {} or {[key, status]}: the request that came next and its answer

keyVars == <<validKeys, cloudApiKey, issued, keyPc, keyAuth, keyShould, keyNew, keyStatus,
             reported, probe>>

InitKeyVars ==
    /\ validKeys = {<<"cloud", 0>>, <<"service", 0>>}
    /\ cloudApiKey = <<"cloud", 0>>
    /\ issued = 0
    /\ keyPc = "idle"
    /\ keyAuth = <<"cloud", 0>>
    /\ keyShould = FALSE
    /\ keyNew = {}
    /\ keyStatus = 0
    /\ reported = <<>>
    /\ probe = NoProbe

\* The authentication of a request: 401 unless the key store has the key.
Authenticates(key) == key \in validKeys

\* check if we're updating the cloud API key.
ShouldUpdateAlways(key, cloud) == TRUE
ShouldUpdateCloudKey(key, cloud) == key = cloud

\* POST /v2/regenerate-api-key arrives with a key. A key the store does not
\* have is answered 401; otherwise the handler notes whether the key is the
\* cloud key and calls apiKeys.refreshKey.
regenerateApiKey(key) ==
    /\ keyPc \in {"idle", "done"}
    /\ issued < NumRefreshes
    /\ keyAuth' = key
    /\ keyNew' = {}
    /\ reported' = <<>>
    /\ probe' = NoProbe
    /\ IF Authenticates(key)
          THEN /\ keyShould' = ShouldUpdateCloudKey(key, cloudApiKey)
               /\ keyPc' = "refreshKey"
               /\ keyStatus' = 0
          ELSE /\ keyPc' = "done"
               /\ keyStatus' = 401
               /\ UNCHANGED keyShould
    /\ UNCHANGED <<validKeys, cloudApiKey, issued>>

\* apiKeys.refreshKey(key): the key is replaced by a new key of its owner,
\* which becomes the cloud key when the old one was.
refreshKey(key, new) == (validKeys \ {key}) \cup {new}

\* refreshKey resolves: the new cloud key is reported when the request came
\* with the cloud key, and the new key is sent with 200.
refreshKeyResolves ==
    /\ keyPc = "refreshKey"
    /\ LET new == <<keyAuth[1], issued + 1>>
           cloud == IF keyAuth = cloudApiKey THEN new ELSE cloudApiKey
       IN  /\ validKeys' = refreshKey(keyAuth, new)
           /\ cloudApiKey' = cloud
           /\ issued' = issued + 1
           /\ keyNew' = {new}
           /\ reported' = IF keyShould THEN Append(reported, cloud) ELSE reported
    /\ keyStatus' = 200
    /\ keyPc' = "done"
    /\ UNCHANGED <<keyAuth, keyShould, probe>>

\* refreshKey rejects: the handler's catch answers 500.
refreshKeyRejects ==
    /\ keyPc = "refreshKey"
    /\ keyStatus' = 500
    /\ keyPc' = "done"
    /\ UNCHANGED <<validKeys, cloudApiKey, issued, keyAuth, keyShould, keyNew, reported, probe>>

\* The next request (POST /v2/blink, say) arrives with a key and is answered.
nextRequest(key) ==
    /\ keyPc = "done"
    /\ probe = NoProbe
    /\ probe' = {[key |-> key, status |-> IF Authenticates(key) THEN 200 ELSE 401]}
    /\ UNCHANGED <<validKeys, cloudApiKey, issued, keyPc, keyAuth, keyShould, keyNew,
                   keyStatus, reported>>

(***************************************************************************)
(* Part 7: device-state.ts, getStatus and the commit store                 *)
(*                                                                         *)
(* The device runs one application. The commit store holds the commit of   *)
(* the release the application's last completed steps brought it to. A     *)
(* getStatus call awaits applicationManager.getStatus(), then              *)
(* commitStore.getCommitForApp(appId), and then assembles its result.      *)
(***************************************************************************)

VARIABLES
    commitStore,          \* {} for no commit, or {commit}
    statusPc,             \* where the getStatus call stands
    statusCommit,         \* the commit getCommitForApp gave the call
    statusReport          \* is_on__commit of the returned status: {} when absent

statusVars == <<commitStore, statusPc, statusCommit, statusReport>>

InitStatusVars ==
    /\ commitStore = {"r1"}
    /\ statusPc = "idle"
    /\ statusCommit = {}
    /\ statusReport = {}

\* commitStore.setCommitForApp, called for the release the steps of a cycle
\* have brought the application to.
setCommitForApp(release) == {release}

\* The steps of a regular cycle complete and leave the commit of the
\* release they installed.
applyTargetStepsCommit ==
    /\ applyTargetStepsDone
    /\ commitStore' = IF shuttingDown THEN commitStore ELSE setCommitForApp(current')
    /\ UNCHANGED <<statusPc, statusCommit, statusReport>>

\* getStatus is called: it awaits applicationManager.getStatus().
getStatus ==
    /\ statusPc \in {"idle", "returned"}
    /\ statusPc' = "apps"
    /\ statusCommit' = {}
    /\ statusReport' = {}
    /\ UNCHANGED commitStore

\* The apps status arrives; appIds[0] is the application and the call
\* awaits commitStore.getCommitForApp(appId), which reads the store.
getStatusReadsCommit ==
    /\ statusPc = "apps"
    /\ statusPc' = "commit"
    /\ statusCommit' = commitStore
    /\ UNCHANGED <<commitStore, statusReport>>

\* is_on__commit of the status: the commit, if there is one and no apply is
\* in progress.
IsOnCommitAlways(commit, inProgress) == commit
IsOnCommit(commit, inProgress) == IF commit # {} /\ ~inProgress THEN commit ELSE {}

\* The commit arrives and getStatus returns.
getStatusReturns ==
    /\ statusPc = "commit"
    /\ statusPc' = "returned"
    /\ statusReport' = IsOnCommit(statusCommit, applyInProgress)
    /\ UNCHANGED <<commitStore, statusCommit>>

(***************************************************************************)
(* Part 8: device-state.ts, healthcheck                                    *)
(*                                                                         *)
(* The clock advances by the interval healthcheck allows a cycle, twice    *)
(* the poll interval. The application manager counts the fetches in        *)
(* progress and the time spent fetching; while a fetch is in progress the  *)
(* time that passes is time spent fetching.                                *)
(***************************************************************************)

\* The most fetches a cycle runs at once.
MaxFetches == 1

VARIABLES
    unmanaged,            \* config: unmanaged
    fetchesInProgress,    \* applicationManager.fetchesInProgress
    timeSpentFetching,    \* applicationManager.timeSpentFetching
    healthPc,             \* where the healthcheck call stands
    healthResult          \* {} before the call returns, or {what it returned}

healthVars == <<unmanaged, fetchesInProgress, timeSpentFetching, healthPc, healthResult>>

InitHealthCall == fetchesInProgress = 0 /\ timeSpentFetching = 0 /\ healthPc = "idle"
                  /\ healthResult = {}
InitHealthVars == InitHealthCall /\ unmanaged = FALSE

\* A fetch step of the running cycle starts, and ends.
fetchStarts ==
    /\ loopPc = "steps"
    /\ fetchesInProgress < MaxFetches
    /\ fetchesInProgress' = fetchesInProgress + 1
    /\ UNCHANGED <<unmanaged, timeSpentFetching, healthPc, healthResult>>

fetchEnds ==
    /\ fetchesInProgress > 0
    /\ fetchesInProgress' = fetchesInProgress - 1
    /\ UNCHANGED <<unmanaged, timeSpentFetching, healthPc, healthResult>>

\* Twice the poll interval passes. The clock stops once that has happened
\* twice since lastApplyStart.
pollTimePasses ==
    /\ now - lastApplyStart < 2 * (2 * maxPollTime)
    /\ now' = now + 2 * maxPollTime
    /\ timeSpentFetching' = IF fetchesInProgress > 0
                                THEN timeSpentFetching + 2 * maxPollTime
                                ELSE timeSpentFetching
    /\ UNCHANGED <<triggerVars, failedUpdates, lastApplyStart, lastSuccessfulUpdate,
                   currentVolatile, applyBlocker, intermediateTarget, shuttingDown, target,
                   current, loopSteps, loopResult, interVars, pausePc, budget>>
    /\ UNCHANGED <<unmanaged, fetchesInProgress, healthPc, healthResult>>

\* A cycle of the regular apply plans; an empty plan calls
\* applicationManager.resetTimeSpentFetching().
applyTargetPlansResets ==
    /\ applyTargetPlans
    /\ timeSpentFetching' = IF RequiredSteps(current, target) = {} THEN 0
                                                                   ELSE timeSpentFetching
    /\ UNCHANGED <<unmanaged, fetchesInProgress, healthPc, healthResult>>

\* The steps of a cycle end, well or not, once its fetches have ended.
stepsDoneAfterFetches ==
    /\ fetchesInProgress = 0
    /\ applyTargetStepsDone
    /\ UNCHANGED healthVars

stepsFailAfterFetches(err) ==
    /\ fetchesInProgress = 0
    /\ applyTargetStepsFail(err)
    /\ UNCHANGED healthVars

\* healthcheck is called: it awaits config.get('unmanaged').
healthcheck ==
    /\ healthPc \in {"idle", "returned"}
    /\ healthPc' = "config"
    /\ healthResult' = {}
    /\ UNCHANGED <<unmanaged, fetchesInProgress, timeSpentFetching>>

\* cycleTimeMs - applicationManager.timeSpentFetching < 2 * maxPollTime
cycleTimeIgnoringFetches == now - lastApplyStart < 2 * maxPollTime
cycleTimeWithinInterval == now - lastApplyStart - timeSpentFetching < 2 * maxPollTime

applyTargetHealthy ==
    \/ ~applyInProgress
    \/ fetchesInProgress > 0
    \/ cycleTimeWithinInterval

\* The configuration arrives and healthcheck returns.
healthcheckReturns ==
    /\ healthPc = "config"
    /\ healthPc' = "returned"
    /\ healthResult' = {IF unmanaged THEN TRUE ELSE applyTargetHealthy}
    /\ UNCHANGED <<unmanaged, fetchesInProgress, timeSpentFetching>>

(***************************************************************************)
(* Part 9: device-state.ts, the steps of one apply cycle                   *)
(*                                                                         *)
(* The target asks for the services of DeviceServices, each with an image  *)
(* of its own. A cycle plans a step for each service that does not run:    *)
(* a fetch of its image, or its start. The steps of a cycle are named      *)
(* <<action, imageId>>.                                                    *)
(***************************************************************************)

\* Number of steps that fail in a behaviour.
MaxStepFailures == 1

Images == {DeviceServices[i].imageId : i \in 1..Len(DeviceServices)}
CycleSteps == {"fetch", "start"} \X Images

VARIABLES
    images,               \* the images on the device
    started,              \* the services that run, by image
    cyclePc,              \* where the applyTarget call stands
    cycleSteps,           \* the steps of the cycle: step -> "running", "done"
    straySteps,           \* steps a failed cycle left running
    stepFailures          \* steps that may still fail

cycleVars == <<images, started, cyclePc, cycleSteps, straySteps, stepFailures>>

NoSteps == [st \in {} |-> "done"]

InitCycle ==
    /\ started = {}
    /\ cyclePc = "plan"
    /\ cycleSteps = NoSteps
    /\ straySteps = {}
    /\ stepFailures = MaxStepFailures
InitCycleVars == InitCycle /\ images = {}

\* The planner, for a service that is in the target and does not run: a
\* fetch if its image is missing, its start otherwise.
StepForEager(image) == {<<"fetch", image>>, <<"start", image>>}
StepFor(image) == IF image \notin images THEN {<<"fetch", image>>} ELSE {<<"start", image>>}
getRequiredSteps == UNION {StepFor(image) : image \in Images \ started}

\* applyStep: a step is not executed once shuttingDown is set.
applyStep(st) == IF shuttingDown THEN "done" ELSE "running"

\* A cycle plans. With no step it ends the apply; otherwise
\* Promise.all(steps.map(applyStep)) calls applyStep for every step.
cyclePlans ==
    /\ cyclePc = "plan"
    /\ IF getRequiredSteps = {}
          THEN /\ cyclePc' = "settled"
               /\ UNCHANGED cycleSteps
          ELSE /\ cyclePc' = "steps"
               /\ cycleSteps' = [st \in getRequiredSteps |-> applyStep(st)]
    /\ UNCHANGED <<images, started, straySteps, stepFailures>>

\* What a completed step leaves on the device.
ImagesAfter(st) == IF st[1] = "fetch" THEN images \cup {st[2]} ELSE images
StartedAfter(st) == IF st[1] = "start" THEN started \cup {st[2]} ELSE started

\* A step of the cycle completes.
stepCompletes(st) ==
    /\ cyclePc = "steps"
    /\ st \in DOMAIN cycleSteps
    /\ cycleSteps[st] = "running"
    /\ cycleSteps' = [cycleSteps EXCEPT ![st] = "done"]
    /\ images' = ImagesAfter(st)
    /\ started' = StartedAfter(st)
    /\ UNCHANGED <<cyclePc, straySteps, stepFailures>>

\* All steps have completed: after the cycle's delay applyTarget calls itself.
cycleRepeats ==
    /\ cyclePc = "steps"
    /\ \A st \in DOMAIN cycleSteps : cycleSteps[st] = "done"
    /\ cyclePc' = "plan"
    /\ cycleSteps' = NoSteps
    /\ UNCHANGED <<images, started, straySteps, stepFailures>>

\* A step fails: Promise.all rejects, applyError ends the cycle and a later
\* run plans again. The other steps of the cycle go on.
stepFails(st) ==
    /\ cyclePc = "steps"
    /\ st \in DOMAIN cycleSteps
    /\ cycleSteps[st] = "running"
    /\ stepFailures > 0
    /\ stepFailures' = stepFailures - 1
    /\ straySteps' = straySteps \cup
                        {o \in DOMAIN cycleSteps : o # st /\ cycleSteps[o] = "running"}
    /\ cyclePc' = "plan"
    /\ cycleSteps' = NoSteps
    /\ UNCHANGED <<images, started>>

\* A step left running by a failed cycle completes.
strayCompletes(st) ==
    /\ st \in straySteps
    /\ straySteps' = straySteps \ {st}
    /\ images' = ImagesAfter(st)
    /\ started' = StartedAfter(st)
    /\ UNCHANGED <<cyclePc, cycleSteps, stepFailures>>

(***************************************************************************)
(* Part 10: device-state.ts, setTarget with its validation, and the v2 API *)
(* POST /v2/local/target-state                                             *)
(*                                                                         *)
(* One setTarget call is followed from its caller to its result: the       *)
(* caller is the POST handler, which passes localSource = true, or the     *)
(* poll of the cloud's target state, which passes none. A target is        *)
(* abstracted to what validateState looks at: whether the state and its    *)
(* local part are objects, and whether the name, the apps, the             *)
(* configuration, the dependent apps and the dependent devices are         *)
(* missing ("null"), valid or invalid.                                     *)
(***************************************************************************)

FieldKinds == {"null", "valid", "invalid"}

TargetState(state, local, name, apps, conf, depApps, depDevices) ==
    [state |-> state, local |-> local, name |-> name, apps |-> apps, config |-> conf,
     depApps |-> depApps, depDevices |-> depDevices]

\* The targets a caller passes: something that is no object, a state whose
\* local part is no object, and every combination of the fields.
TargetStates ==
    {TargetState("other", "other", "null", "null", "null", "null", "null"),
     TargetState("object", "other", "null", "null", "null", "null", "null")}
    \cup {TargetState("object", "object", n, a, c, da, dd) :
             n \in FieldKinds, a \in FieldKinds, c \in FieldKinds,
             da \in FieldKinds, dd \in FieldKinds}

NoTarget == TargetState("none", "none", "null", "null", "null", "null", "null")
NoResult == [status |-> 0, message |-> ""]

VARIABLES
    explicitLocalMode,    \* config: explicitLocalMode
    stPc,                 \* where the call stands
    stCaller,             \* "post" or "cloud"
    stTarget,             \* the target passed to setTarget
    stForce,              \* req.body.force
    stResult,             \* the response of the POST, or the outcome of setTarget
    storedTarget,         \* {} or the stored target with its source
    targetStateChanged    \* the targets emitted as targetStateChanged

localVars == <<explicitLocalMode, stPc, stCaller, stTarget, stForce, stResult, storedTarget,
               targetStateChanged>>

InitSetTarget ==
    /\ stPc = "idle"
    /\ stCaller = "none"
    /\ stTarget = NoTarget
    /\ stForce = FALSE
    /\ stResult = NoResult
    /\ storedTarget = {}
    /\ targetStateChanged = {}
InitLocalVars == InitSetTarget /\ explicitLocalMode = FALSE

\* config.get('localMode'): explicitLocalMode || unmanaged.
LocalModeAlways == TRUE
localMode == explicitLocalMode \/ unmanaged

\* config.get('apiEndpoint'): empty on an unmanaged device.
apiEndpoint == IF unmanaged THEN "" ELSE "endpoint"

\* POST /v2/local/target-state arrives: the handler awaits
\* config.get('localMode').
postLocalTargetState(t, force) ==
    /\ stPc = "idle"
    /\ stPc' = "localMode"
    /\ stCaller' = "post"
    /\ stTarget' = t
    /\ stForce' = force
    /\ UNCHANGED <<explicitLocalMode, stResult, storedTarget, targetStateChanged>>

\* Outside local mode the handler answers 400; in local mode it calls
\* setTarget(req.body, true), which awaits db.initialized and
\* config.initialized.
localModeArrives ==
    /\ stPc = "localMode"
    /\ IF localMode
          THEN /\ stPc' = "initialized"
               /\ UNCHANGED stResult
          ELSE /\ stPc' = "done"
               /\ stResult' = [status |-> 400,
                               message |-> "Target state can only set when device is in local mode"]
    /\ UNCHANGED <<explicitLocalMode, stCaller, stTarget, stForce, storedTarget,
                   targetStateChanged>>

\* The poll of the cloud's target state calls setTarget(target).
setTargetFromCloud(t) ==
    /\ stPc = "idle"
    /\ stPc' = "initialized"
    /\ stCaller' = "cloud"
    /\ stTarget' = t
    /\ UNCHANGED <<explicitLocalMode, stForce, stResult, storedTarget, targetStateChanged>>

\* validateLocalState, validateDependentState and validateState: "ok", or
\* the message of the error thrown.
validateLocalState(t) ==
    IF t.name = "invalid" THEN "Invalid device name"
    ELSE IF t.apps # "valid" THEN "Invalid apps"
    ELSE IF t.config # "valid" THEN "Invalid device configuration"
    ELSE "ok"

validateDependentState(t) ==
    IF t.depApps = "invalid" THEN "Invalid dependent apps"
    ELSE IF t.depDevices = "invalid" THEN "Invalid dependent devices"
    ELSE "ok"

AcceptsAll(t) == "ok"
validateState(t) ==
    IF t.state # "object" THEN "State must be an object"
    ELSE IF t.local # "object" THEN "Local state must be an object"
    ELSE IF validateLocalState(t) # "ok" THEN validateLocalState(t)
    ELSE validateDependentState(t)

\* What the caller makes of an error of setTarget: the POST handler answers
\* 400 with its message.
Thrown(message) ==
    [status |-> IF stCaller = "post" THEN 400 ELSE 0, message |-> message]

\* setTarget resumes: failedUpdates = 0, validateState(target), and for a
\* valid target the targetStateChanged event and config.get('apiEndpoint').
setTargetValidates ==
    /\ stPc = "initialized"
    /\ failedUpdates' = 0
    /\ IF validateState(stTarget) # "ok"
          THEN /\ stPc' = "done"
               /\ stResult' = Thrown(validateState(stTarget))
               /\ UNCHANGED targetStateChanged
          ELSE /\ stPc' = "apiEndpoint"
               /\ targetStateChanged' = targetStateChanged \cup {stTarget}
               /\ UNCHANGED stResult
    /\ UNCHANGED <<explicitLocalMode, stCaller, stTarget, stForce, storedTarget>>
    /\ UNCHANGED <<triggerVars, lastApplyStart, lastSuccessfulUpdate, currentVolatile,
                   applyBlocker, intermediateTarget, shuttingDown, target, current, now,
                   loopSteps, loopResult, interVars, pausePc, budget>>

\* The source applicationManager.setTarget is given.
SourceOf(localSource) == IF localSource \/ apiEndpoint = "" THEN "local" ELSE apiEndpoint

\* The transaction of setTarget commits and setTarget returns.
setTargetStores ==
    /\ stPc = "apiEndpoint"
    /\ storedTarget' = {[target |-> stTarget, source |-> SourceOf(stCaller = "post")]}
    /\ stPc' = IF stCaller = "post" THEN "stored" ELSE "done"
    /\ UNCHANGED <<explicitLocalMode, stCaller, stTarget, stForce, stResult,
                   targetStateChanged>>

\* The transaction of setTarget fails and leaves the store as it was.
setTargetRejects ==
    /\ stPc = "apiEndpoint"
    /\ stPc' = "done"
    /\ stResult' = Thrown("transaction failed")
    /\ UNCHANGED <<explicitLocalMode, stCaller, stTarget, stForce, storedTarget,
                   targetStateChanged>>

\* The POST handler resumes after setTarget: triggerApplyTarget({force})
\* and the answer 200.
postTriggersApply ==
    /\ stPc = "stored"
    /\ stPc' = "done"
    /\ stResult' = [status |-> 200, message |-> "OK"]
    /\ TriggerEffect(stForce, 0, FALSE)
    /\ UNCHANGED <<explicitLocalMode, stCaller, stTarget, stForce, storedTarget,
                   targetStateChanged>>
    /\ UNCHANGED <<failedUpdates, lastApplyStart, lastSuccessfulUpdate, currentVolatile,
                   applyBlocker, intermediateTarget, shuttingDown, target, current, now,
                   loopSteps, loopResult, interVars, pausePc, budget>>

(***************************************************************************)
(* Part 11: lib/system-info.ts, filterNonSignificantChanges                *)
(*                                                                         *)
(* A report is an object of metrics.  A metric is {n} when it is the       *)
(* number n and {} when it is undefined, or null in the past report;       *)
(* sysKeys is the set of keys the current report has.                      *)
(***************************************************************************)

SysInfoKeys == {"cpu_usage", "cpu_temp", "memory_usage", "memory_total"}
\* The numbers a metric takes: they fall into three buckets of each size.
MetricValues == {-1, 9, 10, 21}
Metrics == {{}} \cup {{n} : n \in MetricValues}

VARIABLES
    sysPast,     \* the report sent last
    sysCurrent,  \* the current report
    sysKeys,     \* the keys of the current report
    sysPc,       \* "idle", then "done"
    sysResult    \* what filterNonSignificantChanges returned

sysVars == <<sysPast, sysCurrent, sysKeys, sysPc, sysResult>>

\* No report has been made: no metric is known.
InitSysReports ==
    /\ sysPast = [k \in SysInfoKeys |-> {}]
    /\ sysCurrent = [k \in SysInfoKeys |-> {}]
    /\ sysKeys = {}
InitSysCall == sysPc = "idle" /\ sysResult = {}
InitSysVars == InitSysReports /\ InitSysCall

significantChangeOfTen == [k \in SysInfoKeys |-> IF k = "memory_total" THEN {} ELSE {10}]

\* The bucket size of a metric, {} for a metric that has none.
significantChange ==
    [k \in SysInfoKeys |->
        IF k = "cpu_usage" THEN {20}
        ELSE IF k = "cpu_temp" THEN {5}
        ELSE IF k = "memory_usage" THEN {10}
        ELSE {}]

NumberOf(metric) == CHOOSE n \in metric : TRUE

\* Math.floor(value / bucketSize): {} stands for NaN, the quotient of
\* undefined.
FloorOfQuotient(value, bucketSize) ==
    IF value = {} THEN {} ELSE {NumberOf(value) \div NumberOf(bucketSize)}

\* a !== b on numbers: NaN differs from every number and from itself.
StrictlyUnequal(a, b) == a = {} \/ b = {} \/ a # b

\* The predicate of _.omitBy: true for a key that is left out of the result.
Omitted(past, currentInfo, key) ==
    IF past[key] = {} THEN TRUE
    ELSE IF significantChange[key] = {} THEN TRUE
    ELSE StrictlyUnequal(FloorOfQuotient(currentInfo[key], significantChange[key]),
                         FloorOfQuotient(past[key], significantChange[key]))

\* filterNonSignificantChanges(past, current): the keys of current that
\* _.omitBy keeps.
filterNonSignificantChanges(past, currentInfo, keys) ==
    {key \in keys : ~Omitted(past, currentInfo, key)}

\* filterNonSignificantChanges is called on the two reports.
filterCalled ==
    /\ sysPc = "idle"
    /\ sysPc' = "done"
    /\ sysResult' = filterNonSignificantChanges(sysPast, sysCurrent, sysKeys)
    /\ UNCHANGED <<sysPast, sysCurrent, sysKeys>>

(***************************************************************************)
(* Part 12: device-state.ts, what a cycle of applyTarget executes and how  *)
(* long it waits                                                           *)
(*                                                                         *)
(* The two planners are not in src/: a cycle draws what they return. A     *)
(* step is <<planner, action>>, the action being "noop" or "change" for    *)
(* every other action. Delays are in milliseconds.                         *)
(***************************************************************************)

\* Number of cycles in a behaviour.
MaxCycles == 12

ConfigSteps == {<<"config", "noop">>, <<"config", "change">>}
AppSteps == {<<"app", "noop">>, <<"app", "change">>}

VARIABLES
    delayPc,      \* where the applyTarget call stands
    steps,        \* the steps of the cycle
    configSeen,   \* what deviceConfig.getRequiredSteps returned in the cycle
    backoff,
    nextDelay,
    retryCount,
    waited,       \* {} or {the delay the cycle waits after its steps}
    cyclesLeft

delayVars == <<delayPc, steps, configSeen, backoff, nextDelay, retryCount, waited, cyclesLeft>>

\* applyTarget is called with the defaults nextDelay = 200, retryCount = 0.
InitDelayVars ==
    /\ delayPc = "plan"
    /\ steps = {}
    /\ configSeen = {}
    /\ backoff = FALSE
    /\ nextDelay = 200
    /\ retryCount = 0
    /\ waited = {}
    /\ cyclesLeft = MaxCycles

AllNoop(list) == \A st \in list : st[2] = "noop"

\* _.every(deviceConfigSteps, ({action}) => action === 'noop').
NoConfigStepsAlways(deviceConfigSteps) == TRUE
noConfigSteps(deviceConfigSteps) == AllNoop(deviceConfigSteps)

\* The steps of a cycle and its backoff flag: the device-config steps when
\* one of them is no noop, or when there is no application step; the
\* application steps otherwise.
StepsOf(deviceConfigSteps, appSteps) ==
    IF ~noConfigSteps(deviceConfigSteps) THEN deviceConfigSteps
    ELSE IF appSteps = {} THEN deviceConfigSteps
    ELSE appSteps
BackoffOf(deviceConfigSteps, appSteps) ==
    noConfigSteps(deviceConfigSteps) /\ appSteps = {}

\* Math.min(Math.pow(2, retryCount) * 1000, 60 * 10 * 1000).
BackoffDelay(n) == Min(Pow2(n) * 1000, 60 * 10 * 1000)

\* retryCount and nextDelay after the plan of a cycle.
RetryCountAfter(list, backs) == IF AllNoop(list) /\ backs THEN retryCount + 1 ELSE retryCount
NextDelayAfter(list, backs) ==
    IF AllNoop(list)
       THEN IF backs THEN BackoffDelay(retryCount + 1) ELSE 1000
       ELSE nextDelay

\* A cycle plans: with no step the call returns; otherwise the steps start.
cycleDraws(deviceConfigSteps, appSteps) ==
    /\ delayPc = "plan"
    /\ cyclesLeft > 0
    /\ cyclesLeft' = cyclesLeft - 1
    /\ configSeen' = deviceConfigSteps
    /\ steps' = StepsOf(deviceConfigSteps, appSteps)
    /\ backoff' = BackoffOf(deviceConfigSteps, appSteps)
    /\ waited' = {}
    /\ IF steps' = {}
          THEN /\ delayPc' = "ended"
               /\ UNCHANGED <<nextDelay, retryCount>>
          ELSE /\ delayPc' = "steps"
               /\ retryCount' = RetryCountAfter(steps', backoff')
               /\ nextDelay' = NextDelayAfter(steps', backoff')

\* The steps complete: Bluebird.delay(nextDelay).
cycleWaits ==
    /\ delayPc = "steps"
    /\ delayPc' = "delay"
    /\ waited' = {nextDelay}
    /\ UNCHANGED <<steps, configSeen, backoff, nextDelay, retryCount, cyclesLeft>>

\* The delay is over: applyTarget calls itself with nextDelay and retryCount.
cycleRecurs ==
    /\ delayPc = "delay"
    /\ delayPc' = "plan"
    /\ UNCHANGED <<steps, configSeen, backoff, nextDelay, retryCount, waited, cyclesLeft>>

\* The run is over, with an empty plan or with the failure of a step, and
\* the next run calls applyTarget with the defaults.
nextRun ==
    /\ delayPc \in {"ended", "steps"}
    /\ delayPc' = "plan"
    /\ steps' = {}
    /\ configSeen' = {}
    /\ backoff' = FALSE
    /\ nextDelay' = 200
    /\ retryCount' = 0
    /\ waited' = {}
    /\ UNCHANGED cyclesLeft

(***************************************************************************)
(* Part 13: device-state.ts, the events a run of applyTarget emits         *)
(*                                                                         *)
(* A run is one call of applyTarget from outside and the calls it makes of *)
(* itself, one per cycle: each call is a frame with its own .catch(). An   *)
(* error is [cause, wraps]: its cause and the number of times the catch    *)
(* block of a frame has wrapped it in a new Error.                         *)
(***************************************************************************)

\* Number of frames a run can have, and of runs in a behaviour.
MaxFrames == 4
NumRuns == 3

Causes == {"UpdatesLockedError", "Error"}

VARIABLES
    emitPc,            \* where the innermost frame stands
    emitIntermediate,  \* the intermediate argument of the run
    frames,            \* number of applyTarget frames awaiting
    thrown,            \* {} or {the error that travels up the frames}
    endEvents,         \* arguments of apply-target-state-end in the run: {} is null
    emitResult,        \* "none", "resolved" or "rejected"
    runsLeft

emitVars == <<emitPc, emitIntermediate, frames, thrown, endEvents, emitResult, runsLeft>>

InitEmitVars ==
    /\ emitPc = "idle"
    /\ emitIntermediate = FALSE
    /\ frames = 0
    /\ thrown = {}
    /\ endEvents = <<>>
    /\ emitResult = "none"
    /\ runsLeft = NumRuns

\* The catch block after the steps: an UpdatesLockedError is forwarded, any
\* other error is wrapped in a new Error.
Caught(e) ==
    IF e.cause = "UpdatesLockedError" THEN e ELSE [e EXCEPT !.wraps = @ + 1]

\* Whether applyError throws its error again.
Rethrows(intermediate) == intermediate

\* applyTarget is called from outside.
runCalled(intermediate) ==
    /\ emitPc \in {"idle", "done"}
    /\ runsLeft > 0
    /\ runsLeft' = runsLeft - 1
    /\ emitIntermediate' = intermediate
    /\ frames' = 1
    /\ thrown' = {}
    /\ endEvents' = <<>>
    /\ emitResult' = "none"
    /\ emitPc' = "plan"

\* The innermost frame finds no step: it emits apply-target-state-end with
\* null and returns, and so does every frame that awaits it.
planIsEmpty ==
    /\ emitPc = "plan"
    /\ endEvents' = Append(endEvents, {})
    /\ frames' = 0
    /\ emitResult' = "resolved"
    /\ emitPc' = "done"
    /\ UNCHANGED <<emitIntermediate, thrown, runsLeft>>

\* The innermost frame finds steps and starts them.
planHasSteps ==
    /\ emitPc = "plan"
    /\ emitPc' = "steps"
    /\ UNCHANGED <<emitIntermediate, frames, thrown, endEvents, emitResult, runsLeft>>

\* The steps complete and, after the delay, the frame calls applyTarget.
frameRecurs ==
    /\ emitPc = "steps"
    /\ frames < MaxFrames
    /\ frames' = frames + 1
    /\ emitPc' = "plan"
    /\ UNCHANGED <<emitIntermediate, thrown, endEvents, emitResult, runsLeft>>

\* applyError(err) in the .catch() of the innermost frame that awaits: it
\* emits apply-target-state-end with err; for an intermediate apply it throws
\* err to the frame above, otherwise it returns and every frame returns.
applyError(err) ==
    /\ endEvents' = Append(endEvents, {err})
    /\ IF Rethrows(emitIntermediate)
          THEN /\ frames' = frames - 1
               /\ thrown' = {err}
               /\ emitPc' = IF frames = 1 THEN "done" ELSE "thrown"
               /\ emitResult' = IF frames = 1 THEN "rejected" ELSE emitResult
          ELSE /\ frames' = 0
               /\ thrown' = {}
               /\ emitPc' = "done"
               /\ emitResult' = "resolved"
    /\ UNCHANGED <<emitIntermediate, runsLeft>>

\* A step of the innermost frame fails.
stepThrows(cause) ==
    /\ emitPc = "steps"
    /\ applyError(Caught([cause |-> cause, wraps |-> 0]))

\* The await of a frame throws what the frame below threw.
frameCatches ==
    /\ emitPc = "thrown"
    /\ applyError(Caught(TheSched(thrown)))

(***************************************************************************)
(* Part 14: logging/monitor.ts, LogMonitor                                 *)
(*                                                                         *)
(* this.containers maps a container id to its entry; monitored[c] is {}    *)
(* when c has no entry and {entry} otherwise. Reading a field of an entry  *)
(* that is not there throws a TypeError: accessErrors keeps the places     *)
(* where that happened.                                                    *)
(***************************************************************************)

ContainerIds == {"c1", "c2"}
\* Number of detach calls in a behaviour.
MaxDetaches == 2

VARIABLES
    monitored,      \* this.containers
    attachPc,       \* per container: where its attach call stands
    backfilling,    \* the containers whose backfill journalctl still runs
    flushPc,        \* where flushDb stands
    flushKeys,      \* the keys flushDb has still to visit
    flushAt,        \* {} or {the container whose row flushDb is writing}
    hooked,         \* the containers whose hook was invoked
    accessErrors,   \* the places that read an entry that was not there
    detachesLeft

monitorVars == <<monitored, attachPc, backfilling, flushPc, flushKeys, flushAt, hooked,
                 accessErrors, detachesLeft>>

InitMonitorVars ==
    /\ monitored = [c \in ContainerIds |-> {}]
    /\ attachPc = [c \in ContainerIds |-> "idle"]
    /\ backfilling = {}
    /\ flushPc = "idle"
    /\ flushKeys = {}
    /\ flushAt = {}
    /\ hooked = {}
    /\ accessErrors = {}
    /\ detachesLeft = MaxDetaches

Entry(follow, writeRequired) == [follow |-> follow, writeRequired |-> writeRequired]
isAttached(c) == monitored[c] # {}
EntryOf(c) == TheSched(monitored[c])

\* attach(containerId, hook): without an entry it creates one and awaits
\* getContainerSentTimestamp.
attach(c) ==
    /\ attachPc[c] \in {"idle", "done"}
    /\ IF isAttached(c)
          THEN /\ attachPc' = [attachPc EXCEPT ![c] = "done"]
               /\ UNCHANGED monitored
          ELSE /\ monitored' = [monitored EXCEPT ![c] = {Entry(FALSE, FALSE)}]
               /\ attachPc' = [attachPc EXCEPT ![c] = "lookup"]
    /\ UNCHANGED <<backfilling, flushPc, flushKeys, flushAt, hooked, accessErrors, detachesLeft>>

\* The timestamp arrives: it is stored in the entry attach created, and
\* backfill is called with this.containers[containerId].timestamp.
attachResumes(c) ==
    /\ attachPc[c] = "lookup"
    /\ attachPc' = [attachPc EXCEPT ![c] = "done"]
    /\ IF isAttached(c)
          THEN backfilling' = backfilling \cup {c} /\ UNCHANGED accessErrors
          ELSE accessErrors' = accessErrors \cup {"attach"} /\ UNCHANGED backfilling
    /\ UNCHANGED <<monitored, flushPc, flushKeys, flushAt, hooked, detachesLeft>>

\* detach(containerId): delete this.containers[containerId].
detach(c) ==
    /\ detachesLeft > 0
    /\ detachesLeft' = detachesLeft - 1
    /\ monitored' = [monitored EXCEPT ![c] = {}]
    /\ UNCHANGED <<attachPc, backfilling, flushPc, flushKeys, flushAt, hooked,
                   accessErrors>>

\* handleRow(row) for a row of container c with a message, from the journal
\* that follows or from a backfill.
handleRow(c) ==
    /\ IF isAttached(c)
          THEN /\ monitored' = [monitored EXCEPT ![c] = {[EntryOf(c) EXCEPT !.writeRequired = TRUE]}]
               /\ hooked' = hooked \cup {c}
          ELSE UNCHANGED <<monitored, hooked>>
    /\ UNCHANGED <<attachPc, backfilling, flushPc, flushKeys, flushAt, accessErrors, detachesLeft>>

\* The journalctl of a backfill closes: this.containers[containerId].follow = true.
backfillCloses(c) ==
    /\ c \in backfilling
    /\ backfilling' = backfilling \ {c}
    /\ IF isAttached(c)
          THEN /\ monitored' = [monitored EXCEPT ![c] = {[EntryOf(c) EXCEPT !.follow = TRUE]}]
               /\ UNCHANGED accessErrors
          ELSE /\ accessErrors' = accessErrors \cup {"close"}
               /\ UNCHANGED monitored
    /\ UNCHANGED <<attachPc, flushPc, flushKeys, flushAt, hooked, detachesLeft>>

\* flushDb starts: Object.keys(this.containers).
flushDb ==
    /\ flushPc = "idle"
    /\ flushPc' = "loop"
    /\ flushKeys' = {c \in ContainerIds : isAttached(c)}
    /\ UNCHANGED <<monitored, attachPc, backfilling, flushAt, hooked, accessErrors, detachesLeft>>

\* flushDb visits a key: it reads writeRequired of the entry and, when it is
\* set, awaits the update of the row. With no key left it returns; the
\* TypeError of a missing entry is caught and ends the flush.
flushVisits ==
    /\ flushPc = "loop"
    /\ IF flushKeys = {}
          THEN /\ flushPc' = "idle"
               /\ UNCHANGED <<flushKeys, flushAt, accessErrors>>
          ELSE \E c \in flushKeys :
                  IF ~isAttached(c)
                     THEN /\ accessErrors' = accessErrors \cup {"flushDb"}
                          /\ flushPc' = "idle"
                          /\ flushKeys' = {}
                          /\ UNCHANGED flushAt
                     ELSE /\ flushKeys' = flushKeys \ {c}
                          /\ flushAt' = IF EntryOf(c).writeRequired THEN {c} ELSE {}
                          /\ flushPc' = IF EntryOf(c).writeRequired THEN "update" ELSE "loop"
                          /\ UNCHANGED accessErrors
    /\ UNCHANGED <<monitored, attachPc, backfilling, hooked, detachesLeft>>

\* The update of the row is done: this.containers[containerId].writeRequired = false.
flushWritten ==
    /\ flushPc = "update"
    /\ flushAt' = {}
    /\ LET c == TheSched(flushAt) IN
       IF isAttached(c)
          THEN /\ monitored' = [monitored EXCEPT ![c] = {[EntryOf(c) EXCEPT !.writeRequired = FALSE]}]
               /\ flushPc' = "loop"
               /\ UNCHANGED <<flushKeys, accessErrors>>
          ELSE /\ accessErrors' = accessErrors \cup {"flushDb"}
               /\ flushPc' = "idle"
               /\ flushKeys' = {}
               /\ UNCHANGED monitored
    /\ UNCHANGED <<attachPc, backfilling, hooked, detachesLeft>>

(***************************************************************************)
(* Specifications                                                          *)
(***************************************************************************)

\* The variables of the parts after Part 10, and those of the parts after
\* Part 6.
lastVars == <<sysVars, delayVars, emitVars, monitorVars>>
InitLastVars == InitSysVars /\ InitDelayVars /\ InitEmitVars /\ InitMonitorVars
laterVars == <<statusVars, healthVars, cycleVars, localVars, lastVars>>
InitLaterVars ==
    InitStatusVars /\ InitHealthVars /\ InitCycleVars /\ InitLocalVars /\ InitLastVars

vars == <<lockVars, applyVars, targetVars, rebootVars, apiVars, keyVars, laterVars>>

\* What the steps of one part leave alone: the variables of the other parts.
notApplyVars == <<lockVars, targetVars, rebootVars, apiVars, keyVars, laterVars>>
notLockVars == <<applyVars, targetVars, rebootVars, apiVars, keyVars, laterVars>>
notTargetVars == <<lockVars, applyVars, rebootVars, apiVars, keyVars, laterVars>>
notRebootVars == <<lockVars, applyVarsButShuttingDown, targetVars, apiVars, keyVars, laterVars>>
notApiVars == <<lockVars, applyVars, targetVars, rebootVars, keyVars, laterVars>>
notKeyVars == <<lockVars, applyVars, targetVars, rebootVars, apiVars, laterVars>>
\* What the steps of Parts 7 to 10 leave alone beside the variables of the
\* others of these parts: with and without the variables of Part 2.
notApplyNorLater == <<lockVars, targetVars, rebootVars, apiVars, keyVars, lastVars>>
notLaterVars == <<lockVars, applyVars, targetVars, rebootVars, apiVars, keyVars, lastVars>>
\* The variables of Parts 1 to 6.
firstVars == <<lockVars, applyVars, targetVars, rebootVars, apiVars, keyVars>>

StepErrors == {"UpdatesLockedError", "Error"}

InitApply ==
    /\ InitApplyVars /\ InitLockVars /\ InitTargetVars /\ InitRebootVars /\ InitApiVars
    /\ InitKeyVars /\ InitLaterVars

NextApply ==
    \/ \E force \in BOOLEAN, delay \in Delays, isFromApi \in BOOLEAN :
          triggerApplyTarget(force, delay, isFromApi) /\ UNCHANGED notApplyVars
    \/ \E t \in Releases, force \in BOOLEAN : setTarget(t, force) /\ UNCHANGED notApplyVars
    \/ timerFires /\ UNCHANGED notApplyVars
    \/ runStarts /\ UNCHANGED notApplyVars
    \/ applyTargetPlans /\ UNCHANGED notApplyVars
    \/ applyTargetStepsDone /\ UNCHANGED notApplyVars
    \/ \E err \in StepErrors : applyTargetStepsFail(err) /\ UNCHANGED notApplyVars
    \/ runEnds /\ UNCHANGED notApplyVars
    \/ \E p \in Pausers : pausingApply(p) /\ UNCHANGED notApplyVars
    \/ \E p \in Pausers : pauseStarts(p) /\ UNCHANGED notApplyVars
    \/ \E p \in Pausers : pauseEnds(p) /\ UNCHANGED notApplyVars
    \/ \E t \in Releases : applyIntermediateTarget(t) /\ UNCHANGED notApplyVars
    \/ intermediatePlans /\ UNCHANGED notApplyVars
    \/ intermediateStepsDone /\ UNCHANGED notApplyVars
    \/ \E err \in StepErrors : intermediateStepsFail(err) /\ UNCHANGED notApplyVars
    \/ intermediateReturns /\ UNCHANGED notApplyVars
    \/ shutdown /\ UNCHANGED notApplyVars
    \/ tick /\ UNCHANGED notApplyVars

SpecApply == InitApply /\ [][NextApply]_vars

\* The steps the event loop takes for the regular run, for the intermediate
\* apply and for pausingApply. Timers fire, handlers run, steps and thunks
\* end: each is taken if it stays possible.
RegularLoop ==
    (timerFires \/ runStarts \/ applyTargetPlans \/ applyTargetStepsDone \/ runEnds)
        /\ UNCHANGED notApplyVars
IntermediateLoop ==
    (intermediatePlans \/ intermediateStepsDone \/ intermediateReturns)
        /\ UNCHANGED notApplyVars
PauseProgress ==
    (\E p \in Pausers : pauseStarts(p) \/ pauseEnds(p)) /\ UNCHANGED notApplyVars

FairApply ==
    /\ SpecApply
    /\ WF_vars(RegularLoop)
    /\ WF_vars(IntermediateLoop)
    /\ WF_vars(PauseProgress)

InitLock == InitApply

NextLock ==
    \/ \E c \in Calls, app \in Apps \cup {NoApp}, force \in BOOLEAN : lock(c, app, force) /\ UNCHANGED notLockVars
    \/ \E c \in Calls : writeLock(c) /\ UNCHANGED notLockVars
    \/ \E c \in Calls : readdir(c) /\ UNCHANGED notLockVars
    \/ \E c \in Calls : takeLockFile(c) /\ UNCHANGED notLockVars
    \/ \E c \in Calls : startThunk(c) /\ UNCHANGED notLockVars
    \/ \E c \in Calls, how \in {"returned", "threw"} : thunkSettles(c, how) /\ UNCHANGED notLockVars
    \/ \E c \in Calls : disposeUnlink(c) /\ UNCHANGED notLockVars
    \/ \E c \in Calls : disposeRelease(c) /\ UNCHANGED notLockVars
    \/ \E f \in WorkloadFiles : workloadLocks(f) /\ UNCHANGED notLockVars
    \/ \E f \in WorkloadFiles : workloadUnlocks(f) /\ UNCHANGED notLockVars
    \/ \E d \in RemovableDirs : serviceDirRemoved(d) /\ UNCHANGED notLockVars

SpecLock == InitLock /\ [][NextLock]_vars

InitTarget == InitApply

NextTarget ==
    \/ \E w \in Setters, t \in Releases : setTargetOpens(w, t) /\ UNCHANGED notTargetVars
    \/ \E w \in Setters : setTargetWrites(w) /\ UNCHANGED notTargetVars
    \/ \E w \in Setters : setTargetCommits(w) /\ UNCHANGED notTargetVars
    \/ getTarget /\ UNCHANGED notTargetVars
    \/ getTargetReads /\ UNCHANGED notTargetVars
    \/ getTargetReturns /\ UNCHANGED notTargetVars

SpecTarget == InitTarget /\ [][NextTarget]_vars

InitReboot ==
    /\ InitLockVars /\ InitApplyVars /\ InitTargetVars
    /\ InitRequests /\ lockOverride \in BOOLEAN /\ workloadLocked \in BOOLEAN
    /\ InitApiVars /\ InitKeyVars /\ InitLaterVars

NextReboot ==
    \/ \E r \in Requests, action \in HostActions, bodyForce \in BodyForces :
          rebootOrShutdown(r, action, bodyForce) /\ UNCHANGED notRebootVars
    \/ \E r \in Requests : executeStepAction(r) /\ UNCHANGED notRebootVars
    \/ \E r \in Requests, stopped \in {"ok", "UpdatesLockedError", "Error"} :
          stopAllSettles(r, stopped) /\ UNCHANGED notRebootVars
    \/ \E r \in Requests, returned \in {"ok", "Error"} :
          primitiveSettles(r, returned) /\ UNCHANGED notRebootVars

SpecReboot == InitReboot /\ [][NextReboot]_vars

ServiceRequests ==
    {Request(e, k, a, i, n, f) : e \in ServiceEndpoints, k \in Keys, a \in AppParams,
                                  i \in ImageParams, n \in NameParams, f \in BodyForces}
AppRequests ==
    {Request(e, k, a, "null", "null", f) : e \in AppEndpoints, k \in Keys, a \in AppParams,
                                            f \in BodyForces}
ListRequests ==
    {Request(e, k, "null", "null", n, "undefined") : e \in ListEndpoints, k \in Keys,
                                                      n \in NameParams}

InitApi ==
    /\ InitLockVars /\ InitApplyVars /\ InitTargetVars
    /\ InitRequests /\ lockOverride = FALSE /\ workloadLocked \in BOOLEAN
    /\ InitApiRequest /\ InitDevice
    /\ mountedVolumes \in SUBSET UNION {TargetVolumes(a) : a \in Apps}
    /\ InitKeyVars /\ InitLaterVars

NextApi ==
    \/ \E req \in ServiceRequests \cup AppRequests \cup ListRequests :
          v2Request(req) /\ UNCHANGED notApiVars
    \/ serviceLookup /\ UNCHANGED notApiVars
    \/ executeStepSettles /\ UNCHANGED notApiVars
    \/ appOpSettles /\ UNCHANGED notApiVars
    \/ v2Responds /\ UNCHANGED notApiVars

SpecApi == InitApi /\ [][NextApi]_vars

InitKeys == InitApply

NextKeys ==
    \/ \E key \in AllKeys : regenerateApiKey(key) /\ UNCHANGED notKeyVars
    \/ refreshKeyResolves /\ UNCHANGED notKeyVars
    \/ refreshKeyRejects /\ UNCHANGED notKeyVars
    \/ \E key \in AllKeys : nextRequest(key) /\ UNCHANGED notKeyVars

SpecKeys == InitKeys /\ [][NextKeys]_vars

\* getStatus calls beside the regular apply of a device whose target changes.
InitStatus ==
    /\ InitLockVars /\ InitApplyVars /\ InitTargetVars /\ InitRebootVars /\ InitApiVars
    /\ InitKeyVars /\ InitLastVars
    /\ commitStore \in {{}, {"r1"}} /\ statusPc = "idle" /\ statusCommit = {}
    /\ statusReport = {}
    /\ InitHealthVars /\ InitCycleVars /\ InitLocalVars

NextStatus ==
    \/ \E t \in Releases, force \in BOOLEAN : setTarget(t, force) /\ UNCHANGED notApplyVars
    \/ timerFires /\ UNCHANGED notApplyVars
    \/ runStarts /\ UNCHANGED notApplyVars
    \/ applyTargetPlans /\ UNCHANGED notApplyVars
    \/ applyTargetStepsCommit /\ UNCHANGED <<notApplyNorLater, healthVars, cycleVars, localVars>>
    \/ \E err \in StepErrors : applyTargetStepsFail(err) /\ UNCHANGED notApplyVars
    \/ runEnds /\ UNCHANGED notApplyVars
    \/ shutdown /\ UNCHANGED notApplyVars
    \/ getStatus /\ UNCHANGED <<notLaterVars, healthVars, cycleVars, localVars>>
    \/ getStatusReadsCommit /\ UNCHANGED <<notLaterVars, healthVars, cycleVars, localVars>>
    \/ getStatusReturns /\ UNCHANGED <<notLaterVars, healthVars, cycleVars, localVars>>

SpecStatus == InitStatus /\ [][NextStatus]_vars

\* healthcheck calls beside the regular apply, its fetches and the clock.
InitHealth ==
    /\ InitLockVars /\ InitApplyVars /\ InitTargetVars /\ InitRebootVars /\ InitApiVars
    /\ InitKeyVars /\ InitLastVars /\ InitStatusVars /\ InitCycleVars /\ InitLocalVars
    /\ InitHealthCall /\ unmanaged \in BOOLEAN

NextHealth ==
    \/ \E delay \in Delays : triggerApplyTarget(FALSE, delay, FALSE) /\ UNCHANGED notApplyVars
    \/ \E t \in Releases : setTarget(t, FALSE) /\ UNCHANGED notApplyVars
    \/ timerFires /\ UNCHANGED notApplyVars
    \/ runStarts /\ UNCHANGED notApplyVars
    \/ applyTargetPlansResets /\ UNCHANGED <<notApplyNorLater, statusVars, cycleVars, localVars>>
    \/ stepsDoneAfterFetches /\ UNCHANGED <<notApplyNorLater, statusVars, cycleVars, localVars>>
    \/ stepsFailAfterFetches("Error") /\ UNCHANGED <<notApplyNorLater, statusVars, cycleVars, localVars>>
    \/ runEnds /\ UNCHANGED notApplyVars
    \/ pollTimePasses /\ UNCHANGED <<notApplyNorLater, statusVars, cycleVars, localVars>>
    \/ fetchStarts /\ UNCHANGED <<notLaterVars, statusVars, cycleVars, localVars>>
    \/ fetchEnds /\ UNCHANGED <<notLaterVars, statusVars, cycleVars, localVars>>
    \/ healthcheck /\ UNCHANGED <<notLaterVars, statusVars, cycleVars, localVars>>
    \/ healthcheckReturns /\ UNCHANGED <<notLaterVars, statusVars, cycleVars, localVars>>

SpecHealth == InitHealth /\ [][NextHealth]_vars

\* The cycles of an apply, on a device that holds some of the images.
InitSteps ==
    /\ InitLockVars /\ InitApplyVars /\ InitTargetVars /\ InitRebootVars /\ InitApiVars
    /\ InitKeyVars /\ InitLastVars /\ InitStatusVars /\ InitHealthVars /\ InitLocalVars
    /\ InitCycle /\ images \in SUBSET Images

NextSteps ==
    \/ cyclePlans /\ UNCHANGED <<notLaterVars, statusVars, healthVars, localVars>>
    \/ \E st \in CycleSteps : stepCompletes(st) /\ UNCHANGED <<notLaterVars, statusVars, healthVars, localVars>>
    \/ cycleRepeats /\ UNCHANGED <<notLaterVars, statusVars, healthVars, localVars>>
    \/ \E st \in CycleSteps : stepFails(st) /\ UNCHANGED <<notLaterVars, statusVars, healthVars, localVars>>
    \/ \E st \in CycleSteps : strayCompletes(st) /\ UNCHANGED <<notLaterVars, statusVars, healthVars, localVars>>
    \/ shutdown /\ UNCHANGED notApplyVars

SpecSteps == InitSteps /\ [][NextSteps]_vars

\* One setTarget call, from the POST handler or from the poll, on a device
\* in or out of local mode, managed or not.
InitLocal ==
    /\ InitLockVars /\ InitApplyVars /\ InitTargetVars /\ InitRebootVars /\ InitApiVars
    /\ InitKeyVars /\ InitLastVars /\ InitStatusVars /\ InitCycleVars
    /\ InitHealthCall /\ unmanaged \in BOOLEAN
    /\ InitSetTarget /\ explicitLocalMode \in BOOLEAN

notApplyNorLocal == <<notApplyNorLater, statusVars, healthVars, cycleVars>>

NextLocal ==
    \/ \E t \in TargetStates, force \in BOOLEAN :
          postLocalTargetState(t, force) /\ UNCHANGED <<notLaterVars, statusVars, healthVars, cycleVars>>
    \/ localModeArrives /\ UNCHANGED <<notLaterVars, statusVars, healthVars, cycleVars>>
    \/ \E t \in TargetStates : setTargetFromCloud(t) /\ UNCHANGED <<notLaterVars, statusVars, healthVars, cycleVars>>
    \/ setTargetValidates /\ UNCHANGED notApplyNorLocal
    \/ setTargetStores /\ UNCHANGED <<notLaterVars, statusVars, healthVars, cycleVars>>
    \/ setTargetRejects /\ UNCHANGED <<notLaterVars, statusVars, healthVars, cycleVars>>
    \/ postTriggersApply /\ UNCHANGED notApplyNorLocal

SpecLocal == InitLocal /\ [][NextLocal]_vars

\* The status endpoints on devices that run and hold different services,
\* beside an apply loop that starts and ends runs that find nothing to do.
DeviceLists ==
    {<<>>, DeviceServices, <<Service("app1", "aux", "i2")>>,
     <<Service("app2", "main", "i3"), Service("app1", "main", "i1")>>}
StatusRequests ==
    {Request("state-status", k, "null", "null", "null", "undefined") : k \in Keys}
    \cup {Request("app-state", k, a, "null", "null", "undefined") : k \in Keys, a \in AppParams}

InitDeviceStatus ==
    /\ InitLockVars /\ InitApplyVars /\ InitTargetVars /\ InitRebootVars
    /\ InitApiRequest /\ mountedVolumes = {}
    /\ containers \in DeviceLists /\ imageStatus \in DeviceLists
    /\ InitKeyVars /\ InitLaterVars

NextDeviceStatus ==
    \/ \E req \in StatusRequests : v2Request(req) /\ UNCHANGED notApiVars
    \/ v2Responds /\ UNCHANGED notApiVars
    \/ appStatusFails /\ UNCHANGED notApiVars
    \/ triggerApplyTarget(FALSE, 0, FALSE) /\ UNCHANGED notApplyVars
    \/ timerFires /\ UNCHANGED notApplyVars
    \/ runStarts /\ UNCHANGED notApplyVars
    \/ applyTargetPlans /\ UNCHANGED notApplyVars
    \/ runEnds /\ UNCHANGED notApplyVars

SpecDeviceStatus == InitDeviceStatus /\ [][NextDeviceStatus]_vars

\* filterNonSignificantChanges on every pair of reports: of the three metrics
\* that have a bucket each is a number or unknown in either report, and the
\* current report has any of the keys.
InitSysInfo ==
    /\ InitLockVars /\ InitApplyVars /\ InitTargetVars /\ InitRebootVars /\ InitApiVars
    /\ InitKeyVars /\ InitStatusVars /\ InitHealthVars /\ InitCycleVars /\ InitLocalVars
    /\ InitSysCall /\ InitDelayVars /\ InitEmitVars /\ InitMonitorVars
    /\ sysPast \in [SysInfoKeys -> Metrics]
    /\ sysCurrent \in [SysInfoKeys -> Metrics]
    /\ sysPast["memory_total"] \in {{}, {21}} /\ sysCurrent["memory_total"] \in {{}, {21}}
    /\ sysPast["memory_usage"] \in {{}, {9}, {10}} /\ sysCurrent["memory_usage"] \in {{}, {-1}, {9}}
    /\ sysKeys \in SUBSET SysInfoKeys
    /\ \A k \in SysInfoKeys \ sysKeys : sysCurrent[k] = {}

NextSysInfo ==
    filterCalled /\ UNCHANGED <<firstVars, statusVars, healthVars, cycleVars, localVars, delayVars, emitVars, monitorVars>>

SpecSysInfo == InitSysInfo /\ [][NextSysInfo]_vars

\* applicationManager.stopAll stops every service that runs.
stopAll(stopped) == IF stopped = "ok" THEN {} ELSE started

\* stopAll settles, and the services it stopped run no more.
stopAllStops(r, stopped) ==
    /\ stopAllSettles(r, stopped)
    /\ started' = stopAll(stopped)
    /\ UNCHANGED <<images, cyclePc, cycleSteps, straySteps, stepFailures>>

\* The apply cycles of a device with its images whose services are to run,
\* beside a reboot or shutdown request.
InitStopAll ==
    /\ InitLockVars /\ InitApplyVars /\ InitTargetVars /\ InitRebootVars /\ InitApiVars
    /\ InitKeyVars /\ InitLastVars /\ InitStatusVars /\ InitHealthVars /\ InitLocalVars
    /\ InitCycle /\ images \in {Images \ {"i3"}, Images}

\* The variables of Parts 1 to 6 but those of Part 4 and shuttingDown.
notRebootNorLater ==
    <<lockVars, applyVarsButShuttingDown, targetVars, apiVars, keyVars, lastVars,
      statusVars, healthVars, localVars>>

NextStopAll ==
    \/ \E action \in HostActions :
          rebootOrShutdown(1, action, "true") /\ UNCHANGED notRebootVars
    \/ executeStepAction(1) /\ UNCHANGED notRebootVars
    \/ \E stopped \in {"ok", "Error"} :
          stopAllStops(1, stopped) /\ UNCHANGED notRebootNorLater
    \/ \E returned \in {"ok", "Error"} :
          primitiveSettles(1, returned) /\ UNCHANGED notRebootVars
    \/ cyclePlans /\ UNCHANGED <<notLaterVars, statusVars, healthVars, localVars>>
    \/ \E st \in CycleSteps :
          stepCompletes(st) /\ UNCHANGED <<notLaterVars, statusVars, healthVars, localVars>>
    \/ cycleRepeats /\ UNCHANGED <<notLaterVars, statusVars, healthVars, localVars>>

SpecStopAll == InitStopAll /\ [][NextStopAll]_vars

\* The cycles of applyTarget with whatever the planners return.
InitDelays ==
    /\ InitLockVars /\ InitApplyVars /\ InitTargetVars /\ InitRebootVars /\ InitApiVars
    /\ InitKeyVars /\ InitStatusVars /\ InitHealthVars /\ InitCycleVars /\ InitLocalVars
    /\ InitSysVars /\ InitDelayVars /\ InitEmitVars /\ InitMonitorVars

notDelayVars ==
    <<firstVars, statusVars, healthVars, cycleVars, localVars, sysVars, emitVars, monitorVars>>

NextDelays ==
    \/ \E deviceConfigSteps \in SUBSET ConfigSteps, appSteps \in SUBSET AppSteps :
          cycleDraws(deviceConfigSteps, appSteps) /\ UNCHANGED notDelayVars
    \/ cycleWaits /\ UNCHANGED notDelayVars
    \/ cycleRecurs /\ UNCHANGED notDelayVars
    \/ nextRun /\ UNCHANGED notDelayVars

SpecDelays == InitDelays /\ [][NextDelays]_vars

\* Runs of applyTarget, regular and intermediate, with steps that fail.
InitEmits ==
    /\ InitLockVars /\ InitApplyVars /\ InitTargetVars /\ InitRebootVars /\ InitApiVars
    /\ InitKeyVars /\ InitStatusVars /\ InitHealthVars /\ InitCycleVars /\ InitLocalVars
    /\ InitSysVars /\ InitDelayVars /\ InitEmitVars /\ InitMonitorVars

notEmitVars ==
    <<firstVars, statusVars, healthVars, cycleVars, localVars, sysVars, delayVars, monitorVars>>

NextEmits ==
    \/ \E intermediate \in BOOLEAN : runCalled(intermediate) /\ UNCHANGED notEmitVars
    \/ planIsEmpty /\ UNCHANGED notEmitVars
    \/ planHasSteps /\ UNCHANGED notEmitVars
    \/ frameRecurs /\ UNCHANGED notEmitVars
    \/ \E cause \in Causes : stepThrows(cause) /\ UNCHANGED notEmitVars
    \/ frameCatches /\ UNCHANGED notEmitVars

SpecEmits == InitEmits /\ [][NextEmits]_vars

\* The LogMonitor with containers that are attached and detached while rows
\* arrive and the timestamps are flushed.
InitMonitor ==
    /\ InitLockVars /\ InitApplyVars /\ InitTargetVars /\ InitRebootVars /\ InitApiVars
    /\ InitKeyVars /\ InitStatusVars /\ InitHealthVars /\ InitCycleVars /\ InitLocalVars
    /\ InitLastVars

notMonitorVars ==
    <<firstVars, statusVars, healthVars, cycleVars, localVars, sysVars, delayVars, emitVars>>

NextMonitor ==
    \/ \E c \in ContainerIds : attach(c) /\ UNCHANGED notMonitorVars
    \/ \E c \in ContainerIds : attachResumes(c) /\ UNCHANGED notMonitorVars
    \/ \E c \in ContainerIds : detach(c) /\ UNCHANGED notMonitorVars
    \/ \E c \in ContainerIds : handleRow(c) /\ UNCHANGED notMonitorVars
    \/ \E c \in ContainerIds : backfillCloses(c) /\ UNCHANGED notMonitorVars
    \/ flushDb /\ UNCHANGED notMonitorVars
    \/ flushVisits /\ UNCHANGED notMonitorVars
    \/ flushWritten /\ UNCHANGED notMonitorVars

SpecMonitor == InitMonitor /\ [][NextMonitor]_vars

(***************************************************************************)
(* Claims about lib/update-lock.ts, checked under SpecLock                 *)
(***************************************************************************)

\* A settled call with an application.
Settled(c) == callPc[c] = "done" /\ callApp[c] # NoApp

C2_SettledCallHoldsNothing ==
    \A c \in Calls : Settled(c) =>
        /\ \A f \in Files : c \notin createdBy[f]
        /\ c \notin writeLockHolder[callApp[c]]

\* C3: two thunks of calls with the same appId never run at the same time,
\* and a thunk runs only while its call is the one holder of writeLock(appId).
C3_ThunksOfOneAppNeverOverlap ==
    \A c1 \in Calls : (callPc[c1] = "thunk" /\ callApp[c1] # NoApp) =>
        /\ writeLockHolder[callApp[c1]] = {c1}
        /\ \A c2 \in Calls \ {c1} : callApp[c2] = callApp[c1] => callPc[c2] # "thunk"

\* C3 witness: a thunk runs while another call for the same app waits.
C3_Witness ==
    \E c1, c2 \in Calls :
        /\ c1 # c2 /\ callApp[c1] = callApp[c2] /\ callApp[c1] # NoApp
        /\ callPc[c1] = "thunk" /\ callPc[c2] = "waiting"

(***************************************************************************)
(* Claims about the apply loop of device-state.ts                          *)
(***************************************************************************)

\* A regular run has just ended on an empty plan:
\* apply-target-state-end(null) was emitted.
EndedWithSuccess == loopPc = "settled" /\ loopResult = "success"

\* C4: convergence. While a regular run is in progress on a device that is
\* not shutting down, with no intermediate apply in flight, either the
\* environment acts again (a new target, a trigger, a failing step, a pause,
\* an intermediate apply, a shutdown) or the run reaches a cycle with an
\* empty plan and ends with apply-target-state-end(null). Every behaviour
\* has finitely many such requests, so after the last one the loop converges.
C4_EventuallyEmptyPlan ==
    \A b \in 0..MaxEvents :
        (budget = b /\ applyInProgress /\ ~shuttingDown /\ interPc = "idle")
            ~> (EndedWithSuccess \/ budget < b)

\* A regular run is in progress on a device that is not shutting down, with
\* no intermediate apply in flight.
RunUndisturbed == applyInProgress /\ ~shuttingDown /\ interPc = "idle"

RegularFails == loopPc = "steps" /\ loopPc' = "settled"

\* A regular run has just ended with an error.
EndedWithError == loopPc = "settled" /\ loopResult \in StepErrors

\* The run ends: its .finally() handler runs.
RunEnds == loopPc \in {"cancelled", "settled"} /\ loopPc' # loopPc

\* A call of triggerApplyTarget({force, delay, isFromApi}), by a caller of its
\* own or after a setTarget.
TriggerCall(force, delay, isFromApi) ==
    \/ triggerApplyTarget(force, delay, isFromApi)
    \/ delay = 0 /\ ~isFromApi /\ \E t \in Releases : setTarget(t, force)

\* C5, as stated: every failure of a regular apply increments failedUpdates
\* and schedules an apply with the run's force and the backoff delay.
C5_AsStated ==
    [][RegularFails =>
          /\ failedUpdates' = failedUpdates + 1
          /\ scheduledApply' = {Sched(runForce, Min(Pow2(failedUpdates') * backoffIncrement,
                                                    maxPollTime))}]_vars

\* C5, amended: every failure of a regular apply increments failedUpdates by
\* one. If no apply was scheduled yet, one is scheduled with the run's force
\* and the delay min(2^failedUpdates * backoffIncrement, maxPollTime); an
\* apply that was already scheduled is kept as it is, with its own force and
\* delay. Either way the failed run stays in progress with an apply
\* scheduled, and when it ends the scheduled apply starts a new run.
C5_FailureBacksOff ==
    /\ [][RegularFails =>
             /\ failedUpdates' = failedUpdates + 1
             /\ scheduledApply' =
                   IF scheduledApply = {}
                      THEN {Sched(runForce, Min(Pow2(failedUpdates') * backoffIncrement,
                                                maxPollTime))}
                      ELSE scheduledApply
             /\ applyInProgress']_vars
    /\ [](EndedWithError => applyInProgress /\ scheduledApply # {})
    /\ [][EndedWithError /\ RunEnds =>
             /\ loopPc' = "waiting"
             /\ applyInProgress'
             /\ runForce' = TheSched(scheduledApply).force
             /\ runDelay' = TheSched(scheduledApply).delay]_vars

\* The second failure in a row of a forced run: the backoff is capped by
\* maxPollTime.
C5_Witness ==
    /\ EndedWithError
    /\ loopResult = "UpdatesLockedError"
    /\ failedUpdates = 2
    /\ runForce
    /\ Pow2(failedUpdates) * backoffIncrement > maxPollTime
    /\ scheduledApply = {Sched(TRUE, maxPollTime)}

\* A regular applyTarget call is running.
InApplyTarget == loopPc \in {"blocked", "plan", "steps"}

\* C6: whenever no apply is in progress scheduledApply is null; a call of
\* triggerApplyTarget made while an apply is in progress leaves an apply
\* scheduled; a run that ends, cancelled or settled, with an apply scheduled
\* starts a new run with the scheduled force and delay and clears
\* scheduledApply; and, provided applyTarget runs terminate, every call is
\* followed by an applyTarget run that starts after it.
C6_TriggersAreServed ==
    /\ [](~applyInProgress => scheduledApply = {})
    /\ [][\A f \in BOOLEAN, d \in Delays, api \in BOOLEAN :
             applyInProgress /\ TriggerCall(f, d, api) => scheduledApply' # {}]_vars
    /\ [][RunEnds /\ scheduledApply # {} =>
             /\ loopPc' = "waiting"
             /\ applyInProgress'
             /\ runForce' = TheSched(scheduledApply).force
             /\ runDelay' = TheSched(scheduledApply).delay
             /\ scheduledApply' = {}]_vars
    /\ ([]<>(~InApplyTarget)) => (pendingTrigger ~> ~pendingTrigger)

\* A failed run holds a scheduled apply whose delay no backoff produces: it
\* was requested by a call made during the run.
C6_Witness ==
    /\ EndedWithError
    /\ pendingTrigger
    /\ scheduledApply = {Sched(FALSE, 4)}
    /\ runDelay = 0

\* C7, as stated: every call made while an apply is in progress and one is
\* already scheduled, from the API or not, leaves the maximum of the delays
\* and the OR of the force flags in scheduledApply.
C7_AsStated ==
    [][\A f \in BOOLEAN, d \in Delays, api \in BOOLEAN :
          applyInProgress /\ scheduledApply # {} /\ TriggerCall(f, d, api) =>
              scheduledApply' = {Sched(TheSched(scheduledApply).force \/ f,
                                       Max(d, TheSched(scheduledApply).delay))}]_vars

\* C7, amended: a call made while an apply is in progress and one is already
\* scheduled leaves the maximum of the delays and the OR of the force flags
\* in scheduledApply, unless the call is from the API and cancelDelay is set
\* (the run's pre-run delay is pending, or has ended and its handler has not
\* run yet): such a call replaces scheduledApply by its own force and delay.
\* The first call of a run is stored as it is.
C7_CoalescedSchedule ==
    [][\A f \in BOOLEAN, d \in Delays, api \in BOOLEAN :
          applyInProgress /\ TriggerCall(f, d, api) =>
              scheduledApply' =
                 IF scheduledApply = {} \/ (api /\ cancelDelay)
                    THEN {Sched(f, d)}
                    ELSE {Sched(TheSched(scheduledApply).force \/ f,
                                Max(d, TheSched(scheduledApply).delay))}]_vars

\* The delay is the backoff of applyError, the force that of a later call:
\* two calls were merged.
C7_Witness ==
    /\ EndedWithError
    /\ failedUpdates = 1
    /\ ~runForce
    /\ scheduledApply = {Sched(TRUE, Min(Pow2(1) * backoffIncrement, maxPollTime))}

\* What a call from the API made during the pre-run delay does, and what
\* the end of the cancelled run does: the wait is cancelled and the call's
\* force and delay are scheduled; the cancelled run ends without a call of
\* applyTarget (lastApplyStart is not written, nothing is planned) and, in
\* the same step, a new run starts waiting with the scheduled force and
\* delay. A call that is not from the API never cancels a wait.
ApiCallCancelsWait ==
    /\ [][\A f \in BOOLEAN, d \in Delays :
             loopPc = "waiting" /\ TriggerCall(f, d, TRUE) =>
                 loopPc' = "cancelled" /\ scheduledApply' = {Sched(f, d)}]_vars
    /\ [](loopPc = "cancelled" => applyInProgress /\ scheduledApply # {})
    /\ [][loopPc = "cancelled" /\ loopPc' # "cancelled" =>
             /\ loopPc' = "waiting"
             /\ runForce' = TheSched(scheduledApply).force
             /\ runDelay' = TheSched(scheduledApply).delay
             /\ scheduledApply' = {}
             /\ UNCHANGED <<lastApplyStart, current, failedUpdates, currentVolatile>>]_vars
    /\ [][\A f \in BOOLEAN, d \in Delays :
             TriggerCall(f, d, FALSE) => (loopPc' = "cancelled" <=> loopPc = "cancelled")]_vars

\* C8, as stated: the above, and the run started after the cancellation
\* uses the force and delay of the call that cancelled the wait: what that
\* call scheduled is what the cancelled run finds when it ends.
C8_AsStated ==
    /\ ApiCallCancelsWait
    /\ [][loopPc = "cancelled" /\ loopPc' = "cancelled" =>
             scheduledApply' = scheduledApply]_vars

\* C8, amended: a call from the API made during the pre-run delay cancels
\* the wait and schedules its own force and delay; the cancelled run ends
\* without calling applyTarget and a new run starts at once with the force
\* and delay then scheduled. These are the API call's own unless further
\* calls arrive before the handlers of the cancelled delay have run: such a
\* call replaces them if it is from the API and is merged into them (maximum
\* delay, OR of force) otherwise. A call not from the API never cancels.
C8_ApiCallCancelsWait ==
    /\ ApiCallCancelsWait
    /\ [][\A f \in BOOLEAN, d \in Delays, api \in BOOLEAN :
             loopPc = "cancelled" /\ TriggerCall(f, d, api) =>
                 scheduledApply' =
                    IF api THEN {Sched(f, d)}
                           ELSE {Sched(TheSched(scheduledApply).force \/ f,
                                       Max(d, TheSched(scheduledApply).delay))}]_vars

\* A run waiting for 4 increments was cancelled by a forced call from the
\* API asking for no delay.
C8_Witness ==
    /\ loopPc = "cancelled"
    /\ runDelay = 4 /\ ~runForce
    /\ scheduledApply = {Sched(TRUE, 0)}
    /\ lastApplyStart = 0 /\ now = 1

\* An intermediate apply ends on an empty plan.
IntermediateSucceeds == interPc = "plan" /\ interPc' = "settled"

\* C9: the step that ends a regular run on an empty plan sets failedUpdates
\* to 0 and lastSuccessfulUpdate to the current time, emits
\* apply-target-state-end(null) and reports update_failed, update_pending and
\* update_downloaded false; the step that ends an intermediate apply on an
\* empty plan emits apply-target-state-end(null) and changes none of them.
C9_SuccessResets ==
    /\ [][loopPc = "plan" /\ loopPc' = "settled" =>
             /\ loopResult' = "success"
             /\ failedUpdates' = 0
             /\ lastSuccessfulUpdate' = {now}
             /\ currentVolatile' = [update_failed |-> FALSE, update_pending |-> FALSE,
                                    update_downloaded |-> FALSE]]_vars
    /\ [][IntermediateSucceeds =>
             /\ interResult' = "success"
             /\ UNCHANGED <<failedUpdates, lastSuccessfulUpdate, currentVolatile>>]_vars

\* A regular run ends on an empty plan at time 1, beside an
\* intermediate apply that also ended on an empty plan.
C9_Witness ==
    /\ EndedWithSuccess
    /\ interPc = "settled" /\ interResult = "success"
    /\ lastSuccessfulUpdate = {1}
    /\ current = "r2"
    /\ budget = 0

\* The thunk of a pausingApply call is running.
ThunkRunning == \E p \in Pausers : pausePc[p] = "thunk"

\* C10: while the thunk of a pausingApply call runs, no regular applyTarget
\* cycle plans (and so none starts executing steps).
C10_NoRegularCycleWhilePaused ==
    [][ThunkRunning /\ ThunkRunning' => ~(loopPc = "plan" /\ loopPc' # "plan")]_vars

\* C11: at most one apply cycle plans or executes steps at any time: the
\* steps of a regular applyTarget and the steps of an intermediate
\* applyTarget never run at the same time.
C11_OneCycleAtATime == ~(RegularInside /\ IntermediateInside)

(***************************************************************************)
(* Claims about setTarget and getTarget, checked under SpecTarget          *)
(***************************************************************************)

\* What getTarget returned is one stored target: its name, its
\* configuration and its apps were written by the same setTarget.
ReturnedOneTarget ==
    getVal["name"] = getVal["config"] /\ getVal["config"] = getVal["apps"]

\* C12: setTarget and getTarget are serializable: getTarget is never reading
\* while a setTarget transaction is open, two setTarget transactions are
\* never open together, and what getTarget returns is one stored target.
C12_TargetSerializable ==
    /\ GetterInside => \A w \in Setters : ~SetterInside(w)
    /\ \A w, x \in Setters : SetterInside(w) /\ SetterInside(x) => w = x
    /\ getPc = "idle" => ReturnedOneTarget

(***************************************************************************)
(* Claims about the reboot and shutdown requests, checked under SpecReboot *)
(***************************************************************************)

Succeeded(r) == reqOutcome[r] = "ok"

\* C13: a request invokes the host primitive at most once, exactly once when
\* it succeeds, and only after its stopAll succeeded; a request whose stopAll
\* failed never invokes it. shuttingDown is set, and the shutdown event is
\* emitted once, only when a primitive has returned; otherwise shuttingDown
\* stays false.
C13_PrimitiveOnceAfterStopAll ==
    /\ \A r \in Requests :
          /\ reqPrimitive[r] <= 1
          /\ reqPrimitive[r] = 1 => reqStopAll[r] = "ok"
          /\ Succeeded(r) => reqPrimitive[r] = 1
          /\ reqStopAll[r] \in {"UpdatesLockedError", "Error"} =>
                reqPrimitive[r] = 0 /\ reqPc[r] = "done"
    /\ shuttingDown <=> \E r \in Requests : Succeeded(r)
    /\ shutdownEvents = Cardinality({r \in Requests : Succeeded(r)})

\* One request was refused by the update lock and another went through.
C13_Witness ==
    \E r, q \in Requests :
        /\ reqStopAll[r] = "UpdatesLockedError" /\ reqPrimitive[r] = 0
        /\ Succeeded(q) /\ reqPrimitive[q] = 1 /\ shuttingDown

\* C14: a request is answered 202 with {Data: "OK", Error: null} when the
\* step action succeeded, 423 when it failed with UpdatesLockedError and 500
\* when it failed otherwise; the action is executed with force exactly when
\* req.body.force is true or lockOverride is true.
C14_StatusAndForce ==
    \A r \in Requests :
        /\ reqPc[r] \in {"stopAll", "primitive", "done"} =>
              (reqForce[r] <=> (reqBodyForce[r] = "true" \/ lockOverride))
        /\ reqPc[r] = "done" =>
              /\ reqOutcome[r] = "ok" =>
                    reqResponse[r] = {[status |-> 202, Data |-> "OK", Error |-> "null"]}
              /\ reqOutcome[r] = "UpdatesLockedError" =>
                    \A resp \in reqResponse[r] : resp.status = 423
              /\ reqOutcome[r] = "Error" =>
                    \A resp \in reqResponse[r] : resp.status = 500
              /\ reqResponse[r] # NoResponse
        /\ reqPc[r] # "done" => reqResponse[r] = NoResponse

\* One request was answered 423, another, with force in its body, 202.
C14_Witness ==
    \E r, q \in Requests :
        /\ reqPc[r] = "done" /\ reqOutcome[r] = "UpdatesLockedError" /\ ~reqForce[r]
        /\ reqPc[q] = "done" /\ reqOutcome[q] = "ok" /\ reqBodyForce[q] = "true"

(***************************************************************************)
(* Claims about the v2 API, checked under SpecApi                          *)
(***************************************************************************)

\* The request names service s: by its imageId when the body has one, by its
\* serviceName otherwise.
Names(req, s) ==
    IF req.imageId # "null" THEN s.imageId = req.imageId
    ELSE s.serviceName = req.serviceName

\* The request passed the checks of its appId and addresses an application
\* of the device with an imageId or a serviceName.
Addressed(req) ==
    /\ req.endpoint \in ServiceEndpoints
    /\ req.appId \in Apps /\ isScoped(req.key, req.appId)
    /\ (req.imageId # "null" \/ req.serviceName # "null")
ForExisting(req) == Addressed(req) /\ \E s \in ServicesOf(req.appId) : Names(req, s)
ForUnknown(req) == Addressed(req) /\ ~\E s \in ServicesOf(req.appId) : Names(req, s)

NoOverlayChange == \A i \in DOMAIN targetVolatile : targetVolatile[i] = "unset"

\* C15: a start-service request for an existing service never takes the
\* update lock; it hands the executor one start step for that service and is
\* answered 200, whether or not a workload holds the lock.
C15_StartTakesNoLock ==
    apiReq.endpoint = "start-service" /\ ForExisting(apiReq) =>
        /\ lockCalls = <<>>
        /\ Len(executorCalls) <= 1
        /\ apiPc = "done" =>
              /\ apiStatus = 200
              /\ Len(executorCalls) = 1
              /\ executorCalls[1].action = "start"
              /\ Names(apiReq, executorCalls[1].current)

\* A start-service without force was answered while a workload held the lock.
C15_Witness ==
    /\ apiReq.endpoint = "start-service" /\ ForExisting(apiReq) /\ apiPc = "done"
    /\ workloadLocked /\ apiReq.force = "undefined" /\ apiStatus = 200

C17_UnknownServiceIs404 ==
    /\ ForUnknown(apiReq) =>
          /\ executorCalls = <<>> /\ NoOverlayChange /\ lockCalls = <<>>
          /\ apiPc = "done" => apiStatus = 404
    /\ Addressed(apiReq) /\ apiReq.imageId # "null" =>
          \A i \in 1..Len(executorCalls) : executorCalls[i].current.imageId = apiReq.imageId

\* A request whose serviceName the application has, but whose imageId it
\* has not, was answered 404.
C17_Witness ==
    /\ ForUnknown(apiReq) /\ apiPc = "done" /\ apiStatus = 404
    /\ apiReq.imageId # "null"
    /\ \E s \in ServicesOf(apiReq.appId) : s.serviceName = apiReq.serviceName

\* The keys scoped to one application, and the application of each.
ScopedKeys == {"key1", "key2"}
AppOfKey(key) == IF key = "key1" THEN "app1" ELSE "app2"

\* Nothing of another application than the key's was changed: no step, no
\* purge, no restart, no overlay.
ChangedOnly(app) ==
    /\ \A i \in 1..Len(executorCalls) : executorCalls[i].current.appId = app
    /\ \A op \in appOps : op[2] = app
    /\ \A i \in 1..Len(DeviceServices) :
          DeviceServices[i].appId # app => targetVolatile[DeviceServices[i].imageId] = "unset"

C19_ReferencedVolumesKept ==
    /\ \A list \in referencedVolumes : \A a \in Apps : TargetVolumes(a) \subseteq list
    /\ \A a \in Apps : TargetVolumes(a) \subseteq volumes

(***************************************************************************)
(* Claims about POST /v2/regenerate-api-key, checked under SpecKeys        *)
(***************************************************************************)

Regenerated == keyPc = "done" /\ keyStatus = 200

\* C20: after a regenerate-api-key request was answered 200, the next
\* request is answered 401 when it comes with the key that authenticated the
\* regeneration, and is accepted when it comes with the key returned; the
\* request reported the new key through reportCurrentState exactly once when
\* it came with the cloud key, and not at all otherwise.
C20_OldKeyRevoked ==
    Regenerated =>
        /\ keyNew # {} /\ keyAuth \notin keyNew
        /\ \A p \in probe :
              /\ p.key = keyAuth => p.status = 401
              /\ p.key \in keyNew => p.status = 200
        /\ reported = IF keyAuth[1] = "cloud" THEN <<CHOOSE k \in keyNew : TRUE>> ELSE <<>>

\* The cloud key was regenerated and the next request came with the old key.
C20_Witness ==
    /\ Regenerated /\ keyAuth[1] = "cloud" /\ Len(reported) = 1
    /\ \E p \in probe : p.key = keyAuth /\ p.status = 401

(***************************************************************************)
(* Claims about getStatus and the commit store, checked under SpecStatus   *)
(***************************************************************************)

\* A getStatus call returns in this step with is_on__commit present.
ReportsCommit == statusPc = "commit" /\ statusPc' = "returned" /\ statusReport' # {}

\* C21: getStatus never reports a commit (is_on__commit) while an apply is
\* in progress, and the commit it reports is the one it read from the commit
\* store, which never holds the commit of a release that is still being
\* applied: the store holds nothing but the commit of the release the
\* device runs.
C21_CommitOfAppliedRelease ==
    /\ [](commitStore \subseteq {current})
    /\ [][ReportsCommit => ~applyInProgress /\ statusReport' = statusCommit]_vars

\* A getStatus call has reported the commit of a release applied after the
\* device started.
C21_Witness ==
    /\ statusPc = "returned"
    /\ statusReport = {"r2"}
    /\ current = "r2"
    /\ ~applyInProgress

(***************************************************************************)
(* Claims about healthcheck, checked under SpecHealth                      *)
(***************************************************************************)

\* A healthcheck call returns in this step.
HealthcheckReturns == healthPc = "config" /\ healthPc' = "returned"

\* The three conditions of the statement, at the moment of the return.
NoApplyOrFetchingOrInTime ==
    \/ ~applyInProgress
    \/ fetchesInProgress >= 1
    \/ (now - lastApplyStart) - timeSpentFetching < 2 * maxPollTime

\* C22 as stated: healthcheck() returns true if and only if no apply is in
\* progress, or at least one fetch is in progress, or the time elapsed since
\* lastApplyStart minus timeSpentFetching is less than 2 * maxPollTime.
C22_AsStated ==
    [][HealthcheckReturns => (healthResult' = {TRUE} <=> NoApplyOrFetchingOrInTime)]_vars

\* C22: healthcheck() returns true if and only if the device is unmanaged,
\* or no apply is in progress, or at least one fetch is in progress, or the
\* time elapsed since lastApplyStart minus timeSpentFetching is less than
\* 2 * maxPollTime.
C22_TrueIffUnmanagedOrHealthy ==
    [][HealthcheckReturns =>
          (healthResult' = {TRUE} <=> (unmanaged \/ NoApplyOrFetchingOrInTime))]_vars

\* An unmanaged device has answered true with an apply in progress, no
\* fetch in progress and the cycle time outside the interval.
C22_Witness ==
    /\ healthPc = "returned"
    /\ healthResult = {TRUE}
    /\ unmanaged
    /\ ~NoApplyOrFetchingOrInTime
    /\ timeSpentFetching > 0

(***************************************************************************)
(* Claims about the steps of a cycle, checked under SpecSteps              *)
(***************************************************************************)

\* The step is called in this step of the model: it is in the cycle now and
\* was not before.
Begins(st) == st \in DOMAIN cycleSteps' /\ st \notin DOMAIN cycleSteps

\* A fetch of the image is in the cycle and has not completed.
FetchIncomplete(image) ==
    /\ <<"fetch", image>> \in DOMAIN cycleSteps'
    /\ cycleSteps'[<<"fetch", image>>] # "done" \/ Begins(<<"fetch", image>>)

Faults(t) ==
    {f \in {<<t.state # "object", "State must be an object">>,
             <<t.state = "object" /\ t.local # "object", "Local state must be an object">>,
             <<t.name = "invalid", "Invalid device name">>,
             <<t.local = "object" /\ t.apps \in {"null", "invalid"}, "Invalid apps">>,
             <<t.local = "object" /\ t.config \in {"null", "invalid"},
               "Invalid device configuration">>,
             <<t.depApps = "invalid", "Invalid dependent apps">>,
             <<t.depDevices = "invalid", "Invalid dependent devices">>} : f[1]}

FailsValidation(t) == Faults(t) # {}

\* setTarget has been called: by the poll, or by the POST handler of a
\* device in local mode.
SetTargetCalled ==
    \/ stCaller = "cloud"
    \/ stCaller = "post" /\ (explicitLocalMode \/ unmanaged) /\ stPc # "localMode"

\* C24: setTarget called with a target that fails validation throws an error
\* with a message that describes a fault of the target, writes nothing to
\* the store and emits no targetStateChanged event.
C24_InvalidTargetRejected ==
    SetTargetCalled /\ FailsValidation(stTarget) =>
        /\ stPc \in {"initialized", "done"}
        /\ stPc = "done" => \E f \in Faults(stTarget) : stResult.message = f[2]
        /\ storedTarget = {}
        /\ targetStateChanged = {}

\* The poll has passed a target with valid apps and configuration and
\* invalid dependent devices, and setTarget has thrown.
C24_Witness ==
    /\ stCaller = "cloud"
    /\ stPc = "done"
    /\ stTarget = TargetState("object", "object", "null", "valid", "valid", "null", "invalid")
    /\ stResult.message = "Invalid dependent devices"

(***************************************************************************)
(* Claims about the status endpoints of the v2 API, checked under          *)
(* SpecDeviceStatus                                                        *)
(***************************************************************************)

\* What the device runs and holds that the key covers, services first.
InScope(key) == SelectSeq(containers \o imageStatus, LAMBDA s : isScoped(key, s.appId))
ItemsOfApp(app) ==
    {<<"container", app, containers[i].serviceName>> : 
        i \in {j \in 1..Len(containers) : containers[j].appId = app}}
    \cup {<<"image", app, imageStatus[i].serviceName>> :
             i \in {j \in 1..Len(imageStatus) : imageStatus[j].appId = app}}
StatusArrives == apiPc = "idle" /\ apiPc' # "idle" /\ apiReq'.endpoint = "state-status"
StatusAnswered == apiPc = "done" /\ apiReq.endpoint = "state-status"

\* C25: GET /v2/state/status answers 200 with the containers and images of
\* one app only, the app of the first service the key covers, or of the first
\* image it covers when it covers no service: every entry carries that appId,
\* release is the commit of that app, and appState is "applying" when an
\* apply was in progress as the handler began and "applied" when none was.
\* When the key covers nothing on the device the lists are empty and there is
\* no commit.
C25_StateStatusOfOneApp ==
    /\ [](StatusAnswered =>
            /\ apiStatus = 200
            /\ apiAppState = (IF apiPending THEN "applying" ELSE "applied")
            /\ IF InScope(apiReq.key) = <<>>
                  THEN apiItems = {} /\ apiRelease = "null"
                  ELSE LET app == InScope(apiReq.key)[1].appId
                       IN  /\ isScoped(apiReq.key, app)
                           /\ \A item \in apiItems : item[2] = app
                           /\ apiItems = ItemsOfApp(app)
                           /\ apiRelease = getCommitForApp(app))
    /\ [][StatusArrives => apiPending' = applyInProgress]_vars

\* A key that covers both apps asks while a run is in progress, on a device
\* whose first service is of app2 and whose last image is of app2 too, with
\* app1 between: the answer is about app2 alone.
C25_Witness ==
    /\ StatusAnswered /\ apiReq.key = "cloud"
    /\ containers = <<Service("app2", "main", "i3"), Service("app1", "main", "i1")>>
    /\ imageStatus = <<Service("app1", "aux", "i2")>>
    /\ apiItems = {<<"container", "app2", "main">>}
    /\ apiRelease = "commit2" /\ apiAppState = "applying"

ItemsOfAppState(app) ==
    {<<"service", app, containers[i].serviceName>> :
        i \in {j \in 1..Len(containers) : containers[j].appId = app}}
    \cup {<<"image", app, imageStatus[i].serviceName>> :
             i \in {j \in 1..Len(imageStatus) : imageStatus[j].appId = app}}
AppStateAnswered == apiPc = "done" /\ apiReq.endpoint = "app-state"
AppKnownAndCovered == apiReq.appId \in LocalApps /\ isScoped(apiReq.key, apiReq.appId)
AppStateOk ==
    /\ apiStatus = 200
    /\ apiRelease = getCommitForApp(apiReq.appId)
    /\ apiItems = ItemsOfAppState(apiReq.appId)

\* C26 as stated: GET /v2/applications/:appId/state answers 400 to an appId
\* that is no integer, 409 for an app that is not on the device or that the
\* key does not cover, and 200 with the commit and the state of that app
\* alone to every other request.
C26_AsStated ==
    AppStateAnswered =>
        IF apiReq.appId = "invalid" THEN apiStatus = 400
        ELSE IF ~AppKnownAndCovered THEN apiStatus = 409
        ELSE AppStateOk

\* C26: GET /v2/applications/:appId/state answers 400 to an appId that is no
\* integer; to any other it answers 500 when the status of the applications
\* cannot be read, else 409 for an app that is not on the device or that the
\* key does not cover, else 200 with the commit and the state of that app
\* alone.
C26_AppStateOr500 ==
    AppStateAnswered =>
        IF apiReq.appId = "invalid" THEN apiStatus = 400 /\ apiItems = {}
        ELSE \/ apiStatus = 500 /\ apiItems = {} /\ apiRelease = "none"
             \/ IF ~AppKnownAndCovered THEN apiStatus = 409 /\ apiItems = {}
                ELSE AppStateOk

\* The key of app2 asks for app2, which the device runs beside app1, and the
\* status of the applications could not be read.
C26_Witness ==
    /\ AppStateAnswered /\ apiReq.key = "key2" /\ apiReq.appId = "app2"
    /\ containers = DeviceServices
    /\ apiStatus = 500

PostCalled == stCaller = "post"
LocalModeOn == explicitLocalMode \/ unmanaged
StoredAsLocal == storedTarget = {[target |-> stTarget, source |-> "local"]}

\* C27: POST /v2/local/target-state on a device that is not in local mode is
\* answered 400 and neither stores a target nor triggers an apply; in local
\* mode a target setTarget rejects is answered 400 with the message of the
\* error and triggers no apply, and an accepted target is stored with source
\* "local" before the apply is triggered and the request answered 200.
C27_LocalTargetOnlyInLocalMode ==
    PostCalled =>
        /\ ~LocalModeOn =>
              /\ stPc \in {"localMode", "done"}
              /\ stPc = "done" =>
                    stResult = [status |-> 400,
                                message |-> "Target state can only set when device is in local mode"]
              /\ storedTarget = {} /\ ~applyInProgress
        /\ LocalModeOn /\ stPc = "done" /\ stResult.status # 200 =>
              /\ stResult.status = 400
              /\ \/ \E f \in Faults(stTarget) : stResult.message = f[2]
                 \/ stResult.message = "transaction failed" /\ ~FailsValidation(stTarget)
              /\ storedTarget = {} /\ ~applyInProgress
        /\ stPc = "done" /\ stResult.status = 200 => StoredAsLocal /\ applyInProgress
        /\ applyInProgress => StoredAsLocal /\ stPc = "done"
        /\ storedTarget # {} => StoredAsLocal /\ ~FailsValidation(stTarget)

\* A managed device in local mode has stored the posted target as a local
\* one, triggered the apply and answered 200.
C27_Witness ==
    /\ PostCalled /\ explicitLocalMode /\ ~unmanaged
    /\ stPc = "done" /\ stResult.status = 200
    /\ StoredAsLocal /\ applyInProgress

(***************************************************************************)
(* Claims about filterNonSignificantChanges, checked under SpecSysInfo     *)
(***************************************************************************)

\* The bucket a number falls into.
BucketOf(n, size) == n \div size
SameBucket(key, size) ==
    /\ sysPast[key] # {} /\ sysCurrent[key] # {}
    /\ \A p \in sysPast[key], c \in sysCurrent[key] : BucketOf(c, size) = BucketOf(p, size)

\* C28: filterNonSignificantChanges(past, current) returns exactly the keys
\* of current among cpu_usage, cpu_temp and memory_usage that have a past
\* value in the same bucket as the current one, the buckets being 20, 5 and
\* 10 wide: a key with no past value and a key with no bucket are not
\* returned.
C28_NonSignificantKeys ==
    sysPc = "done" =>
        sysResult = {k \in sysKeys :
                        \/ k = "cpu_usage" /\ SameBucket(k, 20)
                        \/ k = "cpu_temp" /\ SameBucket(k, 5)
                        \/ k = "memory_usage" /\ SameBucket(k, 10)}

\* cpu_usage went from 9 to 10 and stays in its bucket of 20, cpu_temp went
\* from 9 to 10 and leaves its bucket of 5, memory_usage went from 10 to 9
\* and leaves its bucket of 10, and memory_total, which has no bucket, is 21
\* as before: cpu_usage alone is returned.
C28_Witness ==
    /\ sysPc = "done" /\ sysKeys = SysInfoKeys
    /\ sysPast = [k \in SysInfoKeys |-> IF k = "memory_usage" THEN {10}
                                        ELSE IF k = "memory_total" THEN {21} ELSE {9}]
    /\ sysCurrent = [k \in SysInfoKeys |-> IF k = "memory_usage" THEN {9}
                                           ELSE IF k = "memory_total" THEN {21} ELSE {10}]
    /\ sysResult = {"cpu_usage"}

(***************************************************************************)
(* Claims about the runs of the apply loop, checked under SpecApply        *)
(***************************************************************************)

\* A regular run exists: it waits in its pre-run delay, executes applyTarget
\* or has its last handler still to run.
RunExists == loopPc # "idle"
\* A step that starts a run: a timer and the handlers of its delay.
RunStarted == loopPc' = "waiting" /\ (loopPc # "waiting" \/ ~applyInProgress)
\* A step in which triggerApplyTarget is called while applyInProgress is true.
TriggeredInProgress == applyInProgress /\ ~pendingTrigger /\ pendingTrigger'

\* C29: there is never more than one regular run: a run starts only when
\* none exists or as the last act of the one that ends, a call of
\* triggerApplyTarget made while applyInProgress is true starts neither a
\* timer nor an applyTarget, and applyInProgress is true as long as the run
\* exists.
C29_OneRegularRun ==
    /\ [](RunExists => applyInProgress)
    /\ [][RunStarted =>
            \/ ~applyInProgress /\ ~RunExists
            \/ loopPc \in {"cancelled", "settled"}]_vars
    /\ [][TriggeredInProgress =>
            /\ applyInProgress'
            /\ loopPc' \notin {"waiting", "fired"} \/ loopPc' = loopPc
            /\ <<runForce, runDelay, lastApplyStart>>' = <<runForce, runDelay, lastApplyStart>>]_vars

\* The steps of a run are executing and a call of triggerApplyTarget made
\* meanwhile has left its request in scheduledApply.
C29_Witness ==
    loopPc = "steps" /\ applyInProgress /\ scheduledApply # {} /\ pendingTrigger

(***************************************************************************)
(* Claims about the lock files of different apps, checked under SpecLock   *)
(***************************************************************************)

\* The thunk of call c runs before and after a step.
ThunkGoesOn(c) == callApp[c] # NoApp /\ callPc[c] = "thunk" /\ callPc'[c] = "thunk"

\* C30: while the thunk of lock(A, ...) runs, every lock file the call took
\* for the services of A stays held: no step of another call, be it the
\* disposal after its thunk or after its failure, unlinks such a file or
\* removes it from locksTaken.
C30_LockFilesHeldDuringThunk ==
    [][\A c \in Calls : ThunkGoesOn(c) =>
          \A f \in Files : createdBy[f] = {c} =>
              /\ lockFiles'[f] = Supervisor
              /\ createdBy'[f] = {c}
              /\ f \in locksTaken']_vars

(***************************************************************************)
(* Claims about the locks of the apply loop, checked under FairApply       *)
(***************************************************************************)

CyclePlans == cyclePc = "plan" /\ cyclePc' # "plan"

\* C32: no step of an earlier cycle is still executing when a later cycle
\* plans or executes: the failure of one step does not end the cycle and
\* the run while other steps of that cycle are running.
C32_NoStepOutlivesItsCycle ==
    /\ [](cyclePc = "steps" => straySteps = {})
    /\ [][CyclePlans => straySteps = {}]_vars

(***************************************************************************)
(* Claims about the apply cycles during a reboot, checked under SpecStopAll *)
(***************************************************************************)

\* stopAll has completed for a reboot or shutdown that has not failed since.
StopAllCompleted == \E r \in Requests : reqStopAll[r] = "ok" /\ reqOutcome[r] # "Error"
\* applyStep executes a step in this step of the model, or a step that was
\* executing completes.
StepExecutes ==
    \/ \E st \in CycleSteps : st \in DOMAIN cycleSteps' /\ st \notin DOMAIN cycleSteps
                                 /\ cycleSteps'[st] = "running"
    \/ images' # images
    \/ started' # started

\* C33: once stopAll has completed during a reboot or shutdown, the apply
\* loop executes no further step before the host goes down, and the
\* services that were stopped are not started again.
C33_NoStepAfterStopAll ==
    [][StopAllCompleted => ~StepExecutes]_vars

(***************************************************************************)
(* Claims about the cycles of applyTarget                                  *)
(***************************************************************************)

CycleExecutes == delayPc \in {"steps", "delay"}
HasAppStep == \E st \in steps : st[1] = "app"

\* C34: in every cycle, application steps are among the steps executed only
\* if every device-config step of the cycle is a noop; when a device-config
\* step is no noop, the cycle executes the device-config steps and nothing
\* else.
C34_AppStepsOnlyAfterConfig ==
    CycleExecutes =>
        /\ HasAppStep => AllNoop(configSeen)
        /\ ~AllNoop(configSeen) => steps = configSeen

C34_Witness ==
    /\ delayPc = "steps"
    /\ configSeen = ConfigSteps
    /\ steps = ConfigSteps

\* The delay the statement gives for the cycle: 200 ms with a step that is
\* no noop, 1 s when the application steps were all noops, and the backoff
\* of the retry count otherwise.
StatedDelay ==
    IF ~AllNoop(steps) THEN 200
    ELSE IF ~backoff THEN 1000
    ELSE BackoffDelay(retryCount)

\* C35: the wait between two cycles of a run is 200 ms after a cycle with
\* a step that is no noop, 1 s after a cycle whose application steps were
\* all noops, and min(2^retryCount * 1000 ms, 10 min) after a cycle that had
\* only device-config noops; it never exceeds 10 minutes.
C35_DelayBetweenCycles ==
    delayPc = "delay" =>
        /\ waited = {StatedDelay}
        /\ \A ms \in waited : ms <= 60 * 10 * 1000

(***************************************************************************)
(* Claims about the time healthcheck measures                              *)
(***************************************************************************)

InProgressBegins == ~applyInProgress /\ applyInProgress'

\* C36: whenever applyInProgress is true, lastApplyStart is not older than
\* the moment applyInProgress became true, so that the time healthcheck
\* measures is that of the current run and not of the run before it.
C36_CycleTimeOfCurrentRun == [][InProgressBegins => lastApplyStart' = now']_vars

(***************************************************************************)
(* Claims about the volatile overlay of the service actions                *)
(***************************************************************************)

Rejected == apiPc = "done" /\ apiStatus # 200

\* C37: a stop-service or restart-service request that is rejected, with
\* 423 because updates are locked or with another error, leaves the running
\* overlay of the service as it was before the request.
C37_RejectedActionKeepsOverlay ==
    apiReq.endpoint \in {"stop-service", "restart-service"} /\ Rejected => NoOverlayChange

(***************************************************************************)
(* Claims about applyIntermediateTarget                                    *)
(***************************************************************************)

IntermediateRuns == interPc \in {"plan", "steps"}
IntermediateOver == interPc \in {"idle", "settled"}

\* C38: intermediateTarget is set exactly while a call of
\* applyIntermediateTarget runs: its cycles plan against the target of the
\* call, and the variable is null again once the call has settled, with
\* success or with a failure.
C38_IntermediateTargetWhileRunning ==
    /\ IntermediateRuns => intermediateTarget # {}
    /\ IntermediateOver => intermediateTarget = {}

(***************************************************************************)
(* Claims about the events of a run                                        *)
(***************************************************************************)

RunGoesOn == emitPc \in {"plan", "steps"}
RunFinished == emitPc = "done"

\* C39: a run of applyTarget, regular or intermediate, with all the calls
\* it makes of itself, emits apply-target-state-end exactly once, when it
\* finishes: with null when it succeeded and with the error when it failed.
C39_OneEndPerRun ==
    /\ RunGoesOn => endEvents = <<>>
    /\ RunFinished =>
          /\ Len(endEvents) = 1
          /\ emitResult = "rejected" => endEvents[1] # {}

(***************************************************************************)
(* Claims about the LogMonitor                                             *)
(***************************************************************************)

\* C40: whenever a container is detached, during the timestamp lookup of
\* attach, while its backfill streams or between two rows, the monitor never
\* reads the entry that was removed: attach, the close handler of the
\* backfill, handleRow and flushDb go on without it.
C40_DetachIsSafe == accessErrors = {}
====
